---- MODULE Spec2Model ----
(***************************************************************************)
(* Model of the two-pass offline mastering engine and of the component     *)
(* that drives it (src/unnamed/part_005).                                  *)
(*                                                                         *)
(* Numbers.  TLC has integers only, so every quantity is scaled:           *)
(*   - levels in dB, LUFS and dBFS are in tenths of a dB (-14.0 LUFS is    *)
(*     -140, the -0.5 dBFS ceiling is -5);                                 *)
(*   - a sample is mantissa * 10^exp amplitude units, the mantissa a small *)
(*     integer kept per sample and the decimal exponent kept per buffer (a *)
(*     one-digit decimal float).  One amplitude unit is the amplitude      *)
(*     whose square is the mean square of the -70 LUFS absolute gate,      *)
(*     10^((-70 + 0.691)/10), i.e. -69.309 dBFS;                           *)
(*   - 10*log10 is computed by FloorDb, which rounds down to a whole dB;   *)
(*     comparisons of loudness values are made on the mean squares, where  *)
(*     they are exact (10*log10 is strictly increasing);                   *)
(*   - -Infinity and +Infinity are the two sentinels of FSub/FAdd.         *)
(***************************************************************************)
EXTENDS Integers, Sequences, FiniteSets, TLC

VARIABLES
    probe,            \* the analyzer applied to one buffer (SpecAnalyzer)
    built,            \* buildDSPForPreset applied to one catalog entry (SpecBuilder)
    wav,              \* the encoders applied to one buffer (SpecWav)
    store,            \* the MemoryStorage instance of the server (SpecStore)
    http,             \* the last request the server answered (SpecRoutes)
    chain,            \* applyFilterChain applied to one EQ list (SpecChain)
    derived,          \* the multiband specs derived from slider values (SpecSlider)
    shaper,           \* applyStereoShaping applied to one stereo spec (SpecShaper)
    playback,         \* the playback refs of AudioMasteringApp (SpecPlayback)
    calls,            \* the processAudioPremium invocations, in call order
    rendered,         \* what the offline audio engine has rendered so far
    audioBuffer,      \* React state of AudioMasteringApp
    file,
    processedBuffer,
    selectedPreset,
    compareMode,
    isProcessing,
    renderTokenRef,   \* useRef(0)
    decoding,         \* handleFileUpload invocations awaiting decodeAudioData
    toasts,           \* toast() calls, oldest first
    mutations,        \* createTrackMutation.mutate() calls, oldest first
    exports,          \* the exportAudio invocations, in call order
    downloads         \* the downloads started by a.click(), oldest first

vars ==
    <<probe, built, wav, store, http, chain, derived, shaper, playback, calls, rendered,
      audioBuffer, file, processedBuffer, selectedPreset,
      compareMode, isProcessing, renderTokenRef, decoding, toasts, mutations,
      exports, downloads>>

exportVars == <<exports, downloads>>

uiVars ==
    <<audioBuffer, file, processedBuffer, selectedPreset, compareMode, isProcessing,
      renderTokenRef, decoding, toasts, mutations, exports, downloads>>

\* ------------------------------------------------------------------ bounds

\* Sample rate of every buffer, in Hz: a 400 ms block is 4 samples, a hop 1.
SampleRate == 10
\* Longest buffer, in samples.
MaxLen == 5
\* Largest decimal exponent of the buffers the analyzer is probed with.
MaxProbeExp == 1
\* processAudioPremium invocations in one behaviour of the component.
MaxRequests == 3

\* --------------------------------------------------------------- numerics

Max(a, b) == IF a >= b THEN a ELSE b

Min(a, b) == IF a <= b THEN a ELSE b

Abs(x) == IF x < 0 THEN -x ELSE x

MaxOf(S) == CHOOSE x \in S : \A y \in S : y <= x

RECURSIVE Pow10(_)
Pow10(n) == IF n = 0 THEN 1 ELSE 10 * Pow10(n - 1)

RECURSIVE SumSeq(_)
SumSeq(s) == IF s = <<>> THEN 0 ELSE Head(s) + SumSeq(Tail(s))

\* const clamp = (v, min, max) => Math.max(min, Math.min(max, v))
clamp(v, lo, hi) == Max(lo, Min(hi, v))

\* The IEEE infinities of the number type.
Infinity == 1000000000

NegInfinity == -1000000000

IsFinite(x) == x # Infinity /\ x # NegInfinity

\* a - b and a + b on numbers that may be infinite (no Infinity - Infinity
\* arises: the true peak is always finite).
FSub(a, b) ==
    IF ~IsFinite(a) THEN a
    ELSE IF b = Infinity THEN NegInfinity
    ELSE IF b = NegInfinity THEN Infinity
    ELSE a - b

FAdd(a, b) ==
    IF ~IsFinite(a) THEN a
    ELSE IF ~IsFinite(b) THEN b
    ELSE a + b

\* 100 * 10^(k/10) for k = 0..49.
DbTable ==
    [k \in 0..49 |-> <<100, 126, 158, 200, 251, 316, 398, 501, 631, 794>>[(k % 10) + 1]
                          * Pow10(k \div 10)]

\* Math.log10: floor(10 * log10(a / b)) in whole dB, for 1/100 <= a/b < 1000
\* (the number of whole-dB steps 10^(k/10) that do not exceed 100 * a / b,
\* less the 20 dB of the factor 100).
FloorDb(a, b) ==
    Cardinality({k \in 0..49 : DbTable[k] * b <= 100 * (100 * a)}) - 21

\* ---------------------------------------------------------------- buffers

\* An AudioBuffer: data[c][i] is the mantissa of sample i-1 of channel c-1.
Buffer(ch, exp, data) ==
    [numberOfChannels |-> ch, length |-> Len(data[1]), exp |-> exp, data |-> data]

\* null, where a buffer is expected
NoBuffer == [numberOfChannels |-> 0, length |-> 0, exp |-> 0, data |-> <<>>]

getChannelData(buffer, c) == buffer.data[c + 1]

IsSilent(buffer) ==
    \A c \in 1..buffer.numberOfChannels :
        \A i \in 1..buffer.length : buffer.data[c][i] = 0

\* ------------------------------------------------- loudness and true peak

\* const linToDb = (lin) => 20 * Math.log10(Math.max(1e-12, lin)), of the
\* amplitude (peakOs / oversample) * 10^exp units; 1e-12 is -240 dBFS.
linToDb(peakOs, oversample, exp) ==
    IF peakOs = 0 THEN -2400
    ELSE 10 * FloorDb(peakOs * peakOs, oversample * oversample) + 200 * exp - 693

\* estimateTruePeakDbFS: the largest |a|, |b| and |a + (b - a) * k / oversample|
\* over the pairs of consecutive samples (i < len - 1) of every channel.
estimateTruePeakDbFS(buffer, oversample) ==
    LET ch == buffer.numberOfChannels
        len == buffer.length
        seen ==
            { Abs(oversample * getChannelData(buffer, c)[i + 1]
                  + (getChannelData(buffer, c)[i + 2]
                     - getChannelData(buffer, c)[i + 1]) * k) :
                c \in 0..(ch - 1), i \in 0..(len - 2), k \in 0..oversample }
        peakOs == MaxOf(seen \cup {0})
    IN  linToDb(peakOs, oversample, buffer.exp)

blockLen == Max(1, (SampleRate * 400) \div 1000)

step == Max(1, (SampleRate * 100) \div 1000)

absGateLUFS == -700

\* The starts of the 400 ms blocks: start = 0, step, ... while
\* start + blockLen <= buffer.length.
BlockStarts(buffer) ==
    LET n == IF buffer.length < blockLen THEN 0
             ELSE ((buffer.length - blockLen) \div step) + 1
    IN  [j \in 1..n |-> (j - 1) * step]

\* sum over the channels of the sum of x * x over one block, in squared
\* mantissas; the block's mean square is this / (blockLen * channels) * 100^exp.
BlockSquares(buffer, start) ==
    LET chSum(c) ==
            SumSeq([i \in 1..blockLen |->
                getChannelData(buffer, c)[start + i]
                    * getChannelData(buffer, c)[start + i]])
    IN  SumSeq([c \in 1..buffer.numberOfChannels |-> chSum(c - 1)])

\* -0.691 + 10 * Math.log10(Math.max(1e-12, ms)) of the mean square
\* ms = (squares / samples) * 100^exp gate units; -0.691 + 10*log10(gate) = -70.
MeanSquareToLUFS(squares, samples, exp) ==
    absGateLUFS + 200 * exp + 10 * FloorDb(squares, samples)

\* Mutation: every block passes the absolute gate.
NoAbsoluteGate(squares, samples, exp) == TRUE

\* l > absGateLUFS for the block with these squares: its mean square exceeds
\* one gate unit, squares * 100^exp > samples.
AboveAbsGate(squares, samples, exp) == squares > samples \div Pow10(2 * exp)

\* Mutation: the blocks' mean squares are summed, not averaged.
SumForMean(blockSquares) == <<SumSeq(blockSquares) * Len(blockSquares), Len(blockSquares)>>

\* lufsBlocksToMeanSquare: the mean of 10^((l + 0.691) / 10) over the blocks,
\* as the pair <<sum of squares, number of blocks>>.
lufsBlocksToMeanSquare(blockSquares) == <<SumSeq(blockSquares), Len(blockSquares)>>

\* integratedLUFS_R128Gated
integratedLUFS_R128Gated(buffer) ==
    LET samples == blockLen * buffer.numberOfChannels
        starts == BlockStarts(buffer)
        blocks == [j \in 1..Len(starts) |-> BlockSquares(buffer, starts[j])]
        above(s) == AboveAbsGate(s, samples, buffer.exp)
        absGated == SelectSeq(blocks, above)
        ungatedMs == lufsBlocksToMeanSquare(absGated)
        ungatedLUFS == MeanSquareToLUFS(ungatedMs[1], ungatedMs[2] * samples, buffer.exp)
        passes(s) == 10 * s * ungatedMs[2] > ungatedMs[1]
        relGated == SelectSeq(absGated, passes)
        gatedMs == lufsBlocksToMeanSquare(relGated)
    IN  IF Len(blocks) = 0 THEN NegInfinity
        ELSE IF Len(absGated) = 0 THEN absGateLUFS
        ELSE IF Len(relGated) = 0 THEN ungatedLUFS
        ELSE MeanSquareToLUFS(gatedMs[1], gatedMs[2] * samples, buffer.exp)

\* ------------------------------------------------------ preset catalog

\* const presets: the settings of each preset, sliders in tenths (bass 4 is
\* 40, compression 1.5 is 15, loudness -8.5 is -85).
Settings(bass, mid, high, compression, loudness) ==
    [bass |-> bass, mid |-> mid, high |-> high,
     compression |-> compression, loudness |-> loudness]

presets ==
    [deharsh      |-> Settings(0, -10, -30, 40, -90),
     mudremover   |-> Settings(-20, 20, 10, 20, -90),
     basstamer    |-> Settings(40, 0, 0, 60, -90),
     vintage      |-> Settings(30, 10, -20, 30, -90),
     modern       |-> Settings(10, 0, 40, 30, -90),
     lofi         |-> Settings(20, -20, -40, 50, -100),
     neosoul      |-> Settings(20, 30, 10, 20, -90),
     festival     |-> Settings(50, 20, 30, 70, -85),
     focus        |-> Settings(10, 20, 0, 40, -90),
     immersive    |-> Settings(0, 10, 30, 20, -90),
     wide         |-> Settings(-10, 0, 40, 20, -90),
     vocalforward |-> Settings(10, 50, 20, 40, -90),
     smoothmids   |-> Settings(10, -20, 10, 30, -90),
     dynamic      |-> Settings(0, 10, 20, 15, -95),
     maximpact    |-> Settings(40, 30, 30, 60, -85),
     bigcappo     |-> Settings(30, 40, 10, 30, -90) @@ [special |-> "bigcappo"]]

PresetKeys == DOMAIN presets

Has(r, f) == f \in DOMAIN r

\* ------------------------------------------------------------- DSP types
\* Frequencies in Hz, gains and thresholds and knees in tenths of a dB, Q and
\* ratios in thousandths, attack and release in milliseconds, widths in percent.
\* An optional field that is undefined is a field the record does not have.

hpf(freq, order, q) == [type |-> "hpf", freq |-> freq, order |-> order, q |-> q]

lowshelf(freq, gainDb, q) == [type |-> "lowshelf", freq |-> freq, gainDb |-> gainDb, q |-> q]

highshelf(freq, gainDb, q) == [type |-> "highshelf", freq |-> freq, gainDb |-> gainDb, q |-> q]

bell(freq, gainDb, q) == [type |-> "bell", freq |-> freq, gainDb |-> gainDb, q |-> q]

Band(ratio, thresholdDb, kneeDb, attackSec, releaseSec) ==
    [ratio |-> ratio, thresholdDb |-> thresholdDb, kneeDb |-> kneeDb,
     attackSec |-> attackSec, releaseSec |-> releaseSec]

Limiter(thresholdDb) ==
    [thresholdDb |-> thresholdDb, ratio |-> 20000, kneeDb |-> 0,
     attackSec |-> 1, releaseSec |-> 100]

UNIVERSAL_OUTPUT ==
    [targetIntegratedLUFS |-> -140,
     ceilingDbFS |-> -5,
     limiter |-> Limiter(-70),
     trimClampDb |-> [min |-> -240, max |-> 120]]

MB_XOVERS == <<120, 400, 2500, 6000>>

\* The band times every exact preset shares (attack, release of bands 1..5).
ExactBands(r1, t1, r2, t2, r3, t3, r4, t4, r5, t5) ==
    <<Band(r1, t1, 30, 25, 120), Band(r2, t2, 30, 15, 110), Band(r3, t3, 30, 10, 100),
      Band(r4, t4, 30, 5, 80), Band(r5, t5, 30, 2, 60)>>

EXACT_PRESETS ==
    [smoothmids |->
        [eq |-> <<hpf(40, 2, 707), bell(250, -15, 1500), highshelf(4000, 10, 700)>>,
         multiband |-> [xoversHz |-> MB_XOVERS,
                        bands |-> ExactBands(2000, -240, 2000, -220, 1600, -200,
                                             1500, -180, 1400, -180)],
         stereo |-> [monoBelowHz |-> 120, widthHighOnly |-> [freq |-> 150, width |-> 110]],
         output |-> UNIVERSAL_OUTPUT],
     dynamic |->
        [eq |-> <<hpf(35, 2, 707), highshelf(10000, 15, 700)>>,
         multiband |-> [xoversHz |-> MB_XOVERS,
                        bands |-> ExactBands(3000, -260, 2000, -220, 1600, -200,
                                             1500, -180, 1400, -180)],
         stereo |-> [monoBelowHz |-> 120, overallWidth |-> 115],
         output |-> [UNIVERSAL_OUTPUT EXCEPT !.limiter = Limiter(-70)]],
     maximpact |->
        [eq |-> <<lowshelf(60, 10, 1000), bell(350, -20, 1800), bell(8000, 5, 1000)>>,
         busComp |-> [enabled |-> TRUE, ratio |-> 4000, thresholdDb |-> -180,
                      kneeDb |-> 60, attackSec |-> 30, releaseSec |-> 100,
                      sidechainHpfHz |-> 100],
         multiband |-> [xoversHz |-> MB_XOVERS,
                        bands |-> ExactBands(3500, -260, 2500, -230, 1800, -200,
                                             1600, -180, 1400, -180)],
         stereo |-> [monoBelowHz |-> 120, widthHighOnly |-> [freq |-> 4000, width |-> 125]],
         output |-> [UNIVERSAL_OUTPUT EXCEPT !.limiter = Limiter(-80)]],
     modern |->
        [eq |-> <<bell(300, -15, 2000), highshelf(12000, 20, 700)>>,
         multiband |-> [xoversHz |-> MB_XOVERS,
                        bands |-> ExactBands(2500, -250, 2000, -220, 1500, -190,
                                             1400, -180, 1300, -180)],
         stereo |-> [monoBelowHz |-> 120, widthHighOnly |-> [freq |-> 200, width |-> 120]],
         output |-> [UNIVERSAL_OUTPUT EXCEPT !.limiter = Limiter(-70)]],
     festival |->
        [eq |-> <<lowshelf(50, 15, 800), bell(250, -25, 2000),
                  highshelf(11000, 10, 700), bell(3200, -10, 2500)>>,
         multiband |-> [xoversHz |-> MB_XOVERS,
                        bands |-> ExactBands(5000, -280, 3000, -240, 1800, -200,
                                             1600, -180, 1400, -180)],
         stereo |-> [monoBelowHz |-> 100, widthHighOnly |-> [freq |-> 5000, width |-> 130]],
         output |-> [UNIVERSAL_OUTPUT EXCEPT !.limiter = Limiter(-90)]],
     bigcappo |-> [special |-> "bigcappo"]]

\* ------------------------------------------------------- DSP spec builder

\* Mutation: the stereo rules follow the preset selected in the component.
StereoForSelection(key) ==
    IF selectedPreset = "festival" THEN [monoBelowHz |-> 120, overallWidth |-> 95]
    ELSE [monoBelowHz |-> 120, overallWidth |-> 110]

\* Stereo rules derived from the preset key.
StereoForKey(key) ==
    IF key = "focus" THEN [monoBelowHz |-> 120, overallWidth |-> 95]
    ELSE IF key = "wide" THEN [monoBelowHz |-> 120, overallWidth |-> 125]
    ELSE IF key = "immersive" THEN [monoBelowHz |-> 120, overallWidth |-> 118]
    ELSE [monoBelowHz |-> 120, overallWidth |-> 110]

\* Mutation: the compression slider is used as it is.
SliderMultibandRawComp(s) ==
    LET comp == s.compression
        threshBase == -220 - ((comp - 20) * 8) \div 10
    IN  [xoversHz |-> MB_XOVERS,
         bands |-> <<Band(clamp(1800 + comp * 45, 1600, 5000), threshBase - 20, 30, 25, 120),
                     Band(clamp(1600 + comp * 28, 1400, 3500), threshBase - 10, 30, 15, 110),
                     Band(clamp(1300 + comp * 12, 1200, 2000), threshBase + 0, 30, 10, 100),
                     Band(clamp(1200 + comp * 10, 1200, 1800), threshBase + 10, 30, 5, 80),
                     Band(clamp(1200 + comp * 8, 1200, 1600), threshBase + 10, 30, 2, 60)>>]

\* The slider-derived multiband spec: comp is the compression slider in tenths.
SliderMultiband(s) ==
    LET comp == clamp(s.compression, 15, 70)
        lowRatio == clamp(1800 + comp * 45, 1600, 5000)
        lowMidRatio == clamp(1600 + comp * 28, 1400, 3500)
        midRatio == clamp(1300 + comp * 12, 1200, 2000)
        highMidRatio == clamp(1200 + comp * 10, 1200, 1800)
        highRatio == clamp(1200 + comp * 8, 1200, 1600)
        threshBase == -220 - ((comp - 20) * 8) \div 10
    IN  [xoversHz |-> MB_XOVERS,
         bands |-> <<Band(lowRatio, threshBase - 20, 30, 25, 120),
                     Band(lowMidRatio, threshBase - 10, 30, 15, 110),
                     Band(midRatio, threshBase + 0, 30, 10, 100),
                     Band(highMidRatio, threshBase + 10, 30, 5, 80),
                     Band(highRatio, threshBase + 10, 30, 2, 60)>>]

\* The optional field f of a record, or nothing when the value is undefined.
Field(defined, r) == IF defined THEN r ELSE <<>>

\* Mutation: the EQ takes the slider values as they are.
SliderEqUnclamped(s) ==
    <<hpf(30, 2, 707), lowshelf(120, s.bass, 1000), bell(1500, s.mid, 1100),
      highshelf(12000, s.high, 700)>>

\* Slider -> EQ mapping: bass drives the low shelf at 120 Hz, mid the bell at
\* 1.5 kHz, high the high shelf at 12 kHz, each clamped to +-6 dB.
SliderEq(s) ==
    <<hpf(30, 2, 707),
      lowshelf(120, clamp(s.bass, -60, 60), 1000),
      bell(1500, clamp(s.mid, -60, 60), 1100),
      highshelf(12000, clamp(s.high, -60, 60), 700)>>

\* const dsp: the baseline derived from the sliders s of preset key.
BaselineDSP(key, s) ==
    [eq |-> SliderEq(s), multiband |-> SliderMultiband(s),
     stereo |-> StereoForKey(key), output |-> UNIVERSAL_OUTPUT]
    @@ Field(Has(s, "special"), [special |-> s.special])

\* Mutation: the override always supplies eq, multiband, stereo and output.
MergeOverrideOnly(exact, dsp) ==
    LET pick(f) == IF Has(exact, f) THEN exact[f] ELSE EXACT_PRESETS.smoothmids[f]
    IN  [eq |-> pick("eq"), multiband |-> pick("multiband"),
         stereo |-> pick("stereo"), output |-> pick("output")]
        @@ Field(Has(exact, "busComp"), [busComp |-> exact.busComp])
        @@ Field(Has(exact, "special"), [special |-> exact.special])

\* Mutation: the merge keeps the slider-derived stereo rules.
MergeKeepsBaselineStereo(exact, dsp) ==
    LET pick(f) == IF Has(exact, f) /\ f # "stereo" THEN exact[f] ELSE dsp[f]
    IN  [eq |-> pick("eq"), multiband |-> pick("multiband"),
         stereo |-> pick("stereo"), output |-> pick("output")]
        @@ Field(Has(exact, "busComp") \/ Has(dsp, "busComp"),
                 [busComp |-> pick("busComp")])
        @@ Field(Has(exact, "special") \/ Has(dsp, "special"),
                 [special |-> pick("special")])

\* Merge any exact overrides: exact.f ?? dsp.f for each of the six fields.
MergeExact(exact, dsp) ==
    LET pick(f) == IF Has(exact, f) THEN exact[f] ELSE dsp[f]
    IN  [eq |-> pick("eq"), multiband |-> pick("multiband"),
         stereo |-> pick("stereo"), output |-> pick("output")]
        @@ Field(Has(exact, "busComp") \/ Has(dsp, "busComp"),
                 [busComp |-> pick("busComp")])
        @@ Field(Has(exact, "special") \/ Has(dsp, "special"),
                 [special |-> pick("special")])

\* The body of buildDSPForPreset with the settings s of the catalog entry key.
buildDSPWith(key, s) ==
    IF Has(EXACT_PRESETS, key)
    THEN MergeExact(EXACT_PRESETS[key], BaselineDSP(key, s))
    ELSE BaselineDSP(key, s)

\* buildDSPForPreset
buildDSPForPreset(key) == buildDSPWith(key, presets[key])

\* ---------------------------------------------------- DSP graph builders
\* A graph is the sequence of its stages in signal order; a stage is the nodes
\* the builder creates, with the parameters it sets. Linear gains are in
\* thousandths, the gains of the output stage are kept in tenths of a dB
\* (dbToLin is strictly increasing, so the dB value identifies the gain).

Biquad(type, freq, q) == [node |-> "biquad", type |-> type, freq |-> freq, q |-> q]

BiquadGain(type, freq, q, gainDb) == Biquad(type, freq, q) @@ [gainDb |-> gainDb]

Gain(name, gain) == [node |-> "gain", name |-> name, gain |-> gain]

Compressor(ratio, thresholdDb, kneeDb, attackSec, releaseSec) ==
    [node |-> "compressor", ratio |-> ratio, threshold |-> thresholdDb,
     knee |-> kneeDb, attack |-> attackSec, release |-> releaseSec]

\* Mutation: a high-pass node becomes one filter whatever its order.
SingleHighPass(spec) ==
    IF spec.type = "hpf"
    THEN <<Biquad("highpass", spec.freq, IF Has(spec, "q") THEN spec.q ELSE 707)>>
    ELSE IF spec.type = "lowshelf"
    THEN <<BiquadGain("lowshelf", spec.freq, IF Has(spec, "q") THEN spec.q ELSE 1000, spec.gainDb)>>
    ELSE IF spec.type = "highshelf"
    THEN <<BiquadGain("highshelf", spec.freq, IF Has(spec, "q") THEN spec.q ELSE 700, spec.gainDb)>>
    ELSE <<BiquadGain("peaking", spec.freq, spec.q, spec.gainDb)>>

\* The nodes one EQNodeSpec becomes.
FilterNodes(spec) ==
    IF spec.type = "hpf"
    THEN LET hp == Biquad("highpass", spec.freq, IF Has(spec, "q") THEN spec.q ELSE 707)
         IN  IF Has(spec, "order") /\ spec.order = 2 THEN <<hp, hp>> ELSE <<hp>>
    ELSE IF spec.type = "lowshelf"
    THEN <<BiquadGain("lowshelf", spec.freq, IF Has(spec, "q") THEN spec.q ELSE 1000, spec.gainDb)>>
    ELSE IF spec.type = "highshelf"
    THEN <<BiquadGain("highshelf", spec.freq, IF Has(spec, "q") THEN spec.q ELSE 700, spec.gainDb)>>
    ELSE <<BiquadGain("peaking", spec.freq, spec.q, spec.gainDb)>>

RECURSIVE applyFilterChain(_)
applyFilterChain(eq) ==
    IF eq = <<>> THEN <<>> ELSE FilterNodes(Head(eq)) \o applyFilterChain(Tail(eq))

makeLP(freq) == Biquad("lowpass", freq, 707)

makeHP(freq) == Biquad("highpass", freq, 707)

\* The five band paths, low to high.
createBandSplit(xoversHz) ==
    <<  <<makeLP(xoversHz[1])>>,
        <<makeHP(xoversHz[1]), makeLP(xoversHz[2])>>,
        <<makeHP(xoversHz[2]), makeLP(xoversHz[3])>>,
        <<makeHP(xoversHz[3]), makeLP(xoversHz[4])>>,
        <<makeHP(xoversHz[4])>>  >>

\* Each band path ends in its compressor; all five feed the unity sum.
applyMultiband(spec) ==
    LET bands == createBandSplit(spec.xoversHz)
    IN  [stage |-> "multiband",
         bands |-> [i \in 1..Len(bands) |->
                      Append(bands[i],
                             Compressor(clamp(spec.bands[i].ratio, 1000, 20000),
                                        spec.bands[i].thresholdDb,
                                        spec.bands[i].kneeDb,
                                        clamp(spec.bands[i].attackSec, 1, 250),
                                        clamp(spec.bands[i].releaseSec, 30, 500)))],
         nodes |-> <<Gain("sum", 1000)>>]

\* dsp.busComp when it is defined and enabled, else no node.
applyBusComp(dsp) ==
    IF ~Has(dsp, "busComp") \/ ~dsp.busComp.enabled THEN <<>>
    ELSE LET spec == dsp.busComp
             hp == IF Has(spec, "sidechainHpfHz") /\ spec.sidechainHpfHz # 0
                   THEN <<Biquad("highpass", spec.sidechainHpfHz, 707)>> ELSE <<>>
         IN  Append(hp, Compressor(clamp(spec.ratio, 1000, 20000), spec.thresholdDb,
                                   spec.kneeDb, clamp(spec.attackSec, 1, 250),
                                   clamp(spec.releaseSec, 30, 500)))

\* The connect() calls of applyBusComp as <<from, to>>: input is the node the
\* stage is given, comp the node it returns, which the multiband stage reads.
BusCompConnections(dsp) ==
    IF ~Has(dsp, "busComp") \/ ~dsp.busComp.enabled THEN <<>>
    ELSE IF Has(dsp.busComp, "sidechainHpfHz") /\ dsp.busComp.sidechainHpfHz # 0
         THEN << <<"input", "highpass">>, <<"highpass", "comp">> >>
         ELSE << <<"input", "comp">> >>

\* Whether the signal of node from reaches node to along the connections.
RECURSIVE Reaches(_, _, _, _)
Reaches(conns, from, to, fuel) ==
    \/ from = to
    \/ /\ fuel > 0
       /\ \E k \in DOMAIN conns :
              conns[k][1] = from /\ Reaches(conns, conns[k][2], to, fuel - 1)

\* clamp((stereo.overallWidth ?? 100) / 100, 0.5, 1.6), in thousandths.
OverallWidth(stereo) ==
    clamp((IF Has(stereo, "overallWidth") THEN stereo.overallWidth ELSE 100) * 10, 500, 1600)

\* Mutation: the extra gain is the whole target width.
TargetAsExtra(stereo) == clamp(stereo.widthHighOnly.width * 10, 500, 1800)

\* const extra = targetWidth - overallWidth, in thousandths.
ExtraWidth(stereo) ==
    clamp(stereo.widthHighOnly.width * 10, 500, 1800) - OverallWidth(stereo)

\* Nodes of the mid/side shaper in creation order.
ShaperNodes(stereo) ==
    LET base == << [node |-> "splitter"], [node |-> "merger"],
                   Gain("L", 1000), Gain("R", 1000), Gain("mid", 500),
                   Gain("invR", -1000), Gain("side", 500),
                   Gain("sideScaled", OverallWidth(stereo)),
                   Gain("outL", 1000), Gain("outR", 1000), Gain("sideInv", -1000) >>
        mono == IF Has(stereo, "monoBelowHz") /\ stereo.monoBelowHz # 0
                THEN <<Biquad("lowpass", stereo.monoBelowHz, 707),
                       Gain("cancel", -1000), Gain("addBack", 1000)>>
                ELSE <<>>
        high == IF Has(stereo, "widthHighOnly")
                THEN <<Biquad("highpass", stereo.widthHighOnly.freq, 707)>>
                     \o (IF Abs(ExtraWidth(stereo)) > 10
                         THEN <<Gain("extraGain", ExtraWidth(stereo)), Gain("extraInv", -1000)>>
                         ELSE <<>>)
                ELSE <<>>
    IN  base \o mono \o high

\* Mutation: the shaper is built whatever the channel count.
ShapesAnyInput(stereo, numChannels) == ShaperNodes(stereo)

\* The nodes applyStereoShaping adds; none below two channels, where it
\* returns its input.
applyStereoShaping(stereo, numChannels) ==
    IF numChannels < 2 THEN <<>> ELSE ShaperNodes(stereo)

\* The connect() calls of applyStereoShaping in code order, as <<from, to>>;
\* in0 and in1 are outputs 0 and 1 of the splitter, the biquads are named by
\* their type. side feeds the high-pass only when the extra gain is created.
StereoConnections(stereo) ==
    LET base == << <<"in0", "L">>, <<"in1", "R">>, <<"L", "mid">>, <<"R", "mid">>,
                   <<"R", "invR">>, <<"L", "side">>, <<"invR", "side">>,
                   <<"side", "sideScaled">>, <<"mid", "outL">>, <<"sideScaled", "outL">>,
                   <<"mid", "outR">>, <<"sideScaled", "sideInv">>, <<"sideInv", "outR">> >>
        mono == IF Has(stereo, "monoBelowHz") /\ stereo.monoBelowHz # 0
                THEN << <<"side", "lowpass">>, <<"lowpass", "cancel">>, <<"cancel", "outL">>,
                        <<"lowpass", "addBack">>, <<"addBack", "outR">> >>
                ELSE <<>>
        high == IF Has(stereo, "widthHighOnly") /\ Abs(ExtraWidth(stereo)) > 10
                THEN << <<"side", "highpass">>, <<"highpass", "extraGain">>,
                        <<"extraGain", "outL">>, <<"extraGain", "extraInv">>,
                        <<"extraInv", "outR">> >>
                ELSE <<>>
    IN  base \o mono \o high

\* The gain in thousandths a node of the shaper applies to a tone of hz Hertz.
\* A gain node applies its gain; a biquad is taken as the ideal filter of its
\* type: unity in its pass band, nothing in its stop band.
NodeResponse(nodes, name, hz) ==
    LET n == CHOOSE k \in DOMAIN nodes :
                 \/ nodes[k].node = "gain" /\ nodes[k].name = name
                 \/ nodes[k].node = "biquad" /\ nodes[k].type = name
    IN  IF nodes[n].node = "gain" THEN nodes[n].gain
        ELSE IF nodes[n].type = "lowpass"
             THEN (IF hz < nodes[n].freq THEN 1000 ELSE 0)
             ELSE (IF hz > nodes[n].freq THEN 1000 ELSE 0)

\* The amplitude at the output of node name for a tone of hz Hertz whose
\* amplitudes on the two input channels are in[1] and in[2]: a node sums its
\* incoming connections and applies its response.
RECURSIVE NodeSignal(_, _, _, _, _)
NodeSignal(nodes, conns, in, hz, name) ==
    IF name = "in0" THEN in[1]
    ELSE IF name = "in1" THEN in[2]
    ELSE LET into == SelectSeq(conns, LAMBDA c : c[2] = name)
             summed == SumSeq([k \in DOMAIN into |->
                                  NodeSignal(nodes, conns, in, hz, into[k][1])])
         IN  (NodeResponse(nodes, name, hz) * summed) \div 1000

\* trim gain, limiter, ceiling gain
applyLimiterAndCeiling(out, trimDb) ==
    << [node |-> "gain", name |-> "trim", gainDb |-> trimDb],
       Compressor(out.limiter.ratio, out.limiter.thresholdDb, out.limiter.kneeDb,
                  out.limiter.attackSec, out.limiter.releaseSec),
       [node |-> "gain", name |-> "ceiling", gainDb |-> out.ceilingDbFS] >>

Stage(name, nodes) == [stage |-> name, nodes |-> nodes]

\* Mutation: only the special tag enables the warmth node.
WarmthForBigcappoOnly(dsp, useAutoTune) ==
    Has(dsp, "special") /\ dsp.special = "bigcappo"

\* dsp.special === 'bigcappo' || useAutoTune
WarmthEnabled(dsp, useAutoTune) ==
    (Has(dsp, "special") /\ dsp.special = "bigcappo") \/ useAutoTune

\* Mutation: the bus compressor is connected ahead of the EQ chain.
BusCompAheadOfEq(buffer, dsp, useAutoTune) ==
    << Stage("safetyHPF", <<Biquad("highpass", 30, 707)>>),
       Stage("busComp", applyBusComp(dsp)),
       Stage("eq", applyFilterChain(dsp.eq)),
       Stage("warmth", IF WarmthEnabled(dsp, useAutoTune)
                       THEN <<BiquadGain("peaking", 400, 1200, -20)>> ELSE <<>>),
       applyMultiband(dsp.multiband),
       Stage("stereo", applyStereoShaping(dsp.stereo, buffer.numberOfChannels)) >>

\* renderPresetGraph from the source node to stereoOut.
ShapedGraph(buffer, dsp, useAutoTune) ==
    LET safetyHPF == <<Biquad("highpass", 30, 707)>>
        warmthTrim == IF WarmthEnabled(dsp, useAutoTune)
                      THEN <<BiquadGain("peaking", 400, 1200, -20)>> ELSE <<>>
    IN  << Stage("safetyHPF", safetyHPF),
           Stage("eq", applyFilterChain(dsp.eq)),
           Stage("warmth", warmthTrim),
           Stage("busComp", applyBusComp(dsp)),
           applyMultiband(dsp.multiband),
           Stage("stereo", applyStereoShaping(dsp.stereo, buffer.numberOfChannels)) >>

\* Mutation: the output stage is appended in both modes.
OutputStageInBothModes(buffer, dsp, useAutoTune, mode, trimDb) ==
    Append(ShapedGraph(buffer, dsp, useAutoTune),
           Stage("output", applyLimiterAndCeiling(dsp.output, trimDb)))

\* The graph renderPresetGraph builds inside its offline context, up to the
\* node it connects to the destination.
renderPresetGraph(buffer, dsp, useAutoTune, mode, trimDb) ==
    IF mode = "preOutput" THEN ShapedGraph(buffer, dsp, useAutoTune)
    ELSE Append(ShapedGraph(buffer, dsp, useAutoTune),
                Stage("output", applyLimiterAndCeiling(dsp.output, trimDb)))

\* The K-weighting approximation of computeIntegratedLUFS_KWeighted.
KWeightingGraph ==
    << Stage("kweight", <<Biquad("highpass", 60, 707),
                          BiquadGain("highshelf", 4000, 707, 40)>>) >>

\* Mutation: the absolute clamp is applied before the peak override.
ClampBeforeOverride(output, integrated, tpPre) ==
    LET trimDb == clamp(FSub(output.targetIntegratedLUFS, integrated),
                        output.trimClampDb.min, output.trimClampDb.max)
    IN  IF tpPre + trimDb > output.ceilingDbFS
        THEN Min(trimDb, output.ceilingDbFS - tpPre) ELSE trimDb

\* Mutation: the trim is not clamped to trimClampDb.
TrimWithoutClamp(output, integrated, tpPre) ==
    LET trimDb == FSub(output.targetIntegratedLUFS, integrated)
    IN  IF FAdd(tpPre, trimDb) > output.ceilingDbFS
        THEN Min(trimDb, output.ceilingDbFS - tpPre) ELSE trimDb

\* Lines 822-830 of processAudioPremium: loudness trim, peak override, clamp.
ComputeTrim(output, integrated, tpPre) ==
    LET trimDb == FSub(output.targetIntegratedLUFS, integrated)
        predictedTP == FAdd(tpPre, trimDb)
        safe == IF predictedTP > output.ceilingDbFS
                THEN Min(trimDb, output.ceilingDbFS - tpPre) ELSE trimDb
    IN  clamp(safe, output.trimClampDb.min, output.trimClampDb.max)

\* ------------------------------------------------------- SpecAnalyzer

\* The mantissas of the buffers the analyzer is probed with.
ProbeMantissas == {0, 1, 3, -9}

RECURSIVE SeqsOf(_, _)
SeqsOf(S, n) ==
    IF n = 0 THEN {<<>>}
    ELSE {Append(s, x) : s \in SeqsOf(S, n - 1), x \in S}

\* Mono buffers of every length 1..MaxLen over ProbeMantissas, and the stereo
\* buffers whose second channel repeats, inverts or mutes the first.
ProbeBuffers ==
    LET monos == UNION {SeqsOf(ProbeMantissas, n) : n \in 1..MaxLen}
    IN  {Buffer(1, e, <<s>>) : s \in monos, e \in 0..MaxProbeExp}
        \cup UNION {{Buffer(2, 0, <<s, s>>), Buffer(2, 0, <<s, [i \in 1..Len(s) |-> -s[i]]>>),
                     Buffer(2, 0, <<s, [i \in 1..Len(s) |-> 0]>>)} : s \in monos}

NoProbe == [buffer |-> NoBuffer, integrated |-> 0, truePeak |-> 0]

Analyze(b) ==
    /\ probe = NoProbe
    /\ probe' = [buffer |-> b,
                 integrated |-> integratedLUFS_R128Gated(b),
                 truePeak |-> estimateTruePeakDbFS(b, 4)]
    /\ UNCHANGED <<built, wav, store, http, chain, derived, shaper, playback, calls, rendered>>
    /\ UNCHANGED uiVars

\* -------------------------------------------------- offline audio engine
\* OfflineAudioContext.startRendering is the browser's: what a graph does to
\* the samples is not in the repository. The engine is an arbitrary but fixed
\* function of (graph, input): the first rendering of a pair chooses the
\* output, every later one repeats it. The output has the input's channel
\* count and length, and silence in gives silence out (every node is linear in
\* its input at zero state). A rendering may also be rejected by the browser.

Sample(kind, i) ==
    IF kind = "silence" THEN 0
    ELSE IF kind = "hum" THEN 1
    ELSE IF i % 2 = 1 THEN 5 ELSE -5

Wave(kind, exp, ch, len) ==
    Buffer(ch, IF kind = "silence" THEN 0 ELSE exp,
           [c \in 1..ch |-> [i \in 1..len |-> Sample(kind, i)]])

EngineOutputs(input, waves) ==
    IF IsSilent(input) THEN {Wave("silence", 0, input.numberOfChannels, input.length)}
    ELSE {Wave(w[1], w[2], input.numberOfChannels, input.length) : w \in waves}

\* startRendering resolves with out, now and whenever the pair is rendered again.
startRendering(graph, input, out) ==
    /\ \A r \in rendered : (r.graph = graph /\ r.input = input) => r.out = out
    /\ rendered' = rendered \cup {[graph |-> graph, input |-> input, out |-> out]}

\* ------------------------------------------------- two-pass orchestrator
\* One record per processAudioPremium invocation. phases lists the phases the
\* invocation has entered; a request that has not been made yet is Idle.

PhaseOrder == <<"Idle", "AnalysisRender", "Measuring", "TrimComputed", "FinalRender", "Done">>

Last(s) == s[Len(s)]

Phase(c) == Last(c.phases)

\* processAudioPremium up to its first await: the DSP spec is built and the
\* analysis render of the preOutput graph is started.
processAudioPremium(buffer, presetKey, useAutoTune, caller, token, closureFile) ==
    LET dsp == buildDSPForPreset(presetKey)
    IN  [phases |-> <<"Idle", "AnalysisRender">>,
         buffer |-> buffer, presetKey |-> presetKey, useAutoTune |-> useAutoTune,
         dsp |-> dsp,
         preGraph |-> renderPresetGraph(buffer, dsp, useAutoTune, "preOutput", 0),
         preRenders |-> 1,
         pre |-> NoBuffer,
         filtered |-> NoBuffer,
         integrated |-> 0, tpPre |-> 0, trimDb |-> 0,
         finalGraph |-> <<>>,
         finalRenders |-> 0,
         final |-> NoBuffer,
         caller |-> caller, token |-> token, file |-> closureFile,
         outcome |-> "pending"]

\* Mutation: the analysis render may resolve again in any later phase.
AnalysisResolvesAgain(c) == Phase(c) \in {"AnalysisRender", "Measuring", "FinalRender"}

AwaitingAnalysis(c) == Phase(c) = "AnalysisRender"

\* Mutation: the token is not compared.
TokenNotChecked(c) == TRUE

\* if (token !== renderTokenRef.current) return null;
TokenIsLatest(c) == c.token = renderTokenRef

\* The track the component posts after a committed render.
TrackOf(c) ==
    [filename |-> c.file, preset |-> c.presetKey, format |-> "wav", videoStatus |-> "none"]

\* Mutation: the failure is reported twice.
ReportedTwice ==
    <<[title |-> "Processing Failed", variant |-> "destructive"],
      [title |-> "Processing Failed", variant |-> "destructive"]>>

\* What the catch block of applyPremiumProcessing reports.
ProcessingFailed == <<[title |-> "Processing Failed", variant |-> "destructive"]>>

\* applyPremiumProcessing after processAudioPremium has resolved with
\* processed: the token gate, the commit, the track mutation, the finally;
\* and handlePresetInteraction, which goes on only with a committed buffer.
ProcessingResolved(c, processed) ==
    /\ IF TokenIsLatest(c)
       THEN /\ processedBuffer' = processed
            /\ selectedPreset' = c.presetKey
            /\ mutations' = IF c.file # "" THEN Append(mutations, TrackOf(c)) ELSE mutations
       ELSE UNCHANGED <<processedBuffer, selectedPreset, mutations>>
    /\ compareMode' = IF TokenIsLatest(c) /\ c.caller = "tap" THEN "preset" ELSE compareMode
    /\ isProcessing' = FALSE
    /\ UNCHANGED <<audioBuffer, file, renderTokenRef, decoding, toasts>>
    /\ UNCHANGED exportVars

\* applyPremiumProcessing after processAudioPremium has rejected: catch, finally.
ProcessingRejected(c) ==
    /\ toasts' = toasts \o ProcessingFailed
    /\ isProcessing' = FALSE
    /\ UNCHANGED <<audioBuffer, file, processedBuffer, selectedPreset, compareMode,
                   renderTokenRef, decoding, mutations>>
    /\ UNCHANGED exportVars

\* Mutation: the final pass builds the spec again, from the preset that is
\* selected in the component.
FinalPassRebuildsDSP(c) == buildDSPForPreset(selectedPreset)

\* The dsp handed to the final pass: the const built at the start of the call.
FinalPassDSP(c) == c.dsp

\* Pass 1 has rendered: pre is kept and the K-weighting render of it starts.
AnalysisRendered(i, waves) ==
    /\ i \in DOMAIN calls
    /\ AwaitingAnalysis(calls[i])
    /\ \E out \in EngineOutputs(calls[i].buffer, waves) :
         /\ startRendering(calls[i].preGraph, calls[i].buffer, out)
         /\ calls' = [calls EXCEPT ![i] =
                        [@ EXCEPT !.pre = out, !.phases = Append(@, "Measuring")]]
    /\ UNCHANGED <<probe, built, wav, store, http, chain, derived, shaper, playback>>
    /\ UNCHANGED uiVars

\* The K-weighted copy has rendered: loudness and true peak are measured, the
\* trim is computed and the final render is started with it.
Measured(i, waves) ==
    /\ i \in DOMAIN calls
    /\ Phase(calls[i]) = "Measuring"
    /\ \E filtered \in EngineOutputs(calls[i].pre, waves) :
         LET c == calls[i]
             integrated == integratedLUFS_R128Gated(filtered)
             tpPre == estimateTruePeakDbFS(c.pre, 4)
             trimDb == ComputeTrim(c.dsp.output, integrated, tpPre)
         IN  /\ startRendering(KWeightingGraph, c.pre, filtered)
             /\ calls' = [calls EXCEPT ![i] =
                            [@ EXCEPT !.filtered = filtered,
                                      !.integrated = integrated,
                                      !.tpPre = tpPre,
                                      !.trimDb = trimDb,
                                      !.finalGraph = renderPresetGraph(c.buffer, FinalPassDSP(c),
                                                        c.useAutoTune, "final", trimDb),
                                      !.finalRenders = @ + 1,
                                      !.phases = @ \o <<"TrimComputed", "FinalRender">>]]
    /\ UNCHANGED <<probe, built, wav, store, http, chain, derived, shaper, playback>>
    /\ UNCHANGED uiVars

\* Pass 2 has rendered: processAudioPremium returns final to its caller.
FinalRendered(i, waves) ==
    /\ i \in DOMAIN calls
    /\ Phase(calls[i]) = "FinalRender"
    /\ \E out \in EngineOutputs(calls[i].buffer, waves) :
         LET c == calls[i]
         IN  /\ startRendering(c.finalGraph, c.buffer, out)
             /\ calls' = [calls EXCEPT ![i] =
                            [@ EXCEPT !.final = out,
                                      !.phases = Append(@, "Done"),
                                      !.outcome = IF c.caller = "direct" THEN "returned"
                                                  ELSE IF TokenIsLatest(c) THEN "committed"
                                                  ELSE "stale"]]
             /\ IF c.caller = "direct" THEN UNCHANGED uiVars
                ELSE ProcessingResolved(c, out)
    /\ UNCHANGED <<probe, built, wav, store, http, chain, derived, shaper, playback>>

\* The browser rejects the render the request is waiting for: the await
\* throws and nothing of processAudioPremium runs after it.
RenderRejected(i) ==
    /\ i \in DOMAIN calls
    /\ \/ AwaitingAnalysis(calls[i])
       \/ Phase(calls[i]) = "Measuring"
       \/ Phase(calls[i]) = "FinalRender"
    /\ calls' = [calls EXCEPT ![i] =
                   [@ EXCEPT !.phases = Append(@, "Failed"),
                             !.outcome = IF @ = "pending" /\ calls[i].caller = "direct"
                                         THEN "rejected" ELSE "failed"]]
    /\ IF calls[i].caller = "direct" THEN UNCHANGED uiVars
       ELSE ProcessingRejected(calls[i])
    /\ UNCHANGED <<probe, built, wav, store, http, chain, derived, shaper, playback, rendered>>

\* ------------------------------------------------------ AudioMasteringApp

\* Uploads and taps made so far.
Requests ==
    Len(calls) + Cardinality(decoding)
    + Cardinality({k \in DOMAIN toasts : toasts[k].title = "Read Error"})

\* applyPremiumProcessing up to its await: isProcessing, the next token, and
\* processAudioPremium called with the file and flag of the calling closure.
applyPremiumProcessing(buffer, presetKey, caller, closureFile) ==
    /\ isProcessing' = TRUE
    /\ renderTokenRef' = renderTokenRef + 1
    /\ calls' = Append(calls, processAudioPremium(buffer, presetKey, FALSE, caller,
                                                  renderTokenRef + 1, closureFile))

\* handleFileUpload up to its first await. The file input is rendered only
\* while no buffer is loaded; the handler's closure still holds the file of
\* the render that created it.
handleFileUpload(selectedFile) ==
    /\ audioBuffer = NoBuffer
    /\ Requests < MaxRequests
    /\ [file |-> selectedFile, closureFile |-> file] \notin decoding
    /\ file' = selectedFile
    /\ isProcessing' = TRUE
    /\ decoding' = decoding \cup {[file |-> selectedFile, closureFile |-> file]}
    /\ UNCHANGED <<audioBuffer, processedBuffer, selectedPreset, compareMode,
                   renderTokenRef, toasts, mutations>>
    /\ UNCHANGED <<probe, built, wav, store, http, chain, derived, shaper, playback, calls, rendered>>
    /\ UNCHANGED exportVars

\* decodeAudioData resolved: the buffer is stored and mastered with 'deharsh'.
DecodeDone(d, decodedBuffer) ==
    /\ d \in decoding
    /\ decoding' = decoding \ {d}
    /\ audioBuffer' = decodedBuffer
    /\ applyPremiumProcessing(decodedBuffer, "deharsh", "upload", d.closureFile)
    /\ UNCHANGED <<file, processedBuffer, selectedPreset, compareMode, toasts, mutations>>
    /\ UNCHANGED <<probe, built, wav, store, http, chain, derived, shaper, playback, rendered>>
    /\ UNCHANGED exportVars

\* arrayBuffer or decodeAudioData rejected: catch and finally of handleFileUpload.
DecodeFailed(d) ==
    /\ d \in decoding
    /\ decoding' = decoding \ {d}
    /\ toasts' = Append(toasts, [title |-> "Read Error", variant |-> "destructive"])
    /\ isProcessing' = FALSE
    /\ UNCHANGED <<audioBuffer, file, processedBuffer, selectedPreset, compareMode,
                   renderTokenRef, mutations>>
    /\ UNCHANGED <<probe, built, wav, store, http, chain, derived, shaper, playback, calls, rendered>>
    /\ UNCHANGED exportVars

\* handlePresetInteraction up to the await of applyPremiumProcessing.
handlePresetInteraction(presetKey) ==
    /\ audioBuffer # NoBuffer
    /\ ~(selectedPreset = presetKey /\ compareMode = "preset")
    /\ Requests < MaxRequests
    /\ applyPremiumProcessing(audioBuffer, presetKey, "tap", file)
    /\ UNCHANGED <<audioBuffer, file, processedBuffer, selectedPreset, compareMode,
                   decoding, toasts, mutations>>
    /\ UNCHANGED <<probe, built, wav, store, http, chain, derived, shaper, playback, rendered>>
    /\ UNCHANGED exportVars

\* toggleCompare while nothing plays; the button exists once a buffer is loaded.
toggleCompare ==
    /\ audioBuffer # NoBuffer
    /\ compareMode' = IF compareMode = "preset" THEN "original" ELSE "preset"
    /\ UNCHANGED <<audioBuffer, file, processedBuffer, selectedPreset, isProcessing,
                   renderTokenRef, decoding, toasts, mutations>>
    /\ UNCHANGED <<probe, built, wav, store, http, chain, derived, shaper, playback, calls, rendered>>
    /\ UNCHANGED exportVars

\* ------------------------------------------------------------ input sets

\* Engine outputs as <<kind, exponent>>: from below the absolute gate to
\* +23 LUFS, and true peaks from -69 dBFS to +23.7 dBFS.
WideWaves == {<<"silence", 0>>, <<"hum", 0>>, <<"hum", 1>>,
              <<"tone", 2>>, <<"tone", 3>>, <<"tone", 4>>}

NarrowWaves == {<<"tone", 2>>}

InputBuffers ==
    {Wave(k, 2, ch, len) : k \in {"silence", "tone"}, ch \in {1, 2}, len \in {blockLen - 1, MaxLen}}

DecodedBuffers == {Wave("tone", 2, 2, MaxLen), Wave("silence", 0, 1, MaxLen)}

\* One processAudioPremium call made directly, with any arguments.
DirectCall(buffer, presetKey, useAutoTune) ==
    /\ calls = <<>>
    /\ calls' = <<processAudioPremium(buffer, presetKey, useAutoTune, "direct", 0, "")>>
    /\ UNCHANGED <<probe, built, wav, store, http, chain, derived, shaper, playback, rendered>>
    /\ UNCHANGED uiVars

\* --------------------------------------------------------------- encoders
\* A sample m * 10^exp of a buffer is the float m * 10^exp * 0.000343 (the
\* amplitude unit, -69.3 dBFS); floats are kept in millionths of full scale.

SampleMicro(buffer, channel, i) ==
    getChannelData(buffer, channel)[i + 1] * Pow10(buffer.exp) * 343

\* floor(a * k / 1000000) for 0 <= a <= 1000000, without leaving 32 bits.
ScaleMicro(a, k) ==
    LET hi == a \div 1000
        lo == a % 1000
        P == hi * k
    IN  (P \div 1000) + ((P % 1000) * 1000 + lo * k) \div 1000000

\* The conversion of setInt16 and of an Int16Array store: the integer part of
\* x modulo 2^16, read as a signed 16-bit number; mag is |x| rounded down.
ToInt16(negative, mag) ==
    (((IF negative THEN -mag ELSE mag) + 32768) % 65536) - 32768

\* Mutation: both signs are scaled by 0x8000.
ScaleBothBy8000(f) ==
    LET sample == clamp(f, -1000000, 1000000)
    IN  ToInt16(sample < 0, ScaleMicro(Abs(sample), 32768))

\* clamp to [-1, 1], then sample < 0 ? sample * 0x8000 : sample * 0x7FFF,
\* stored as a 16-bit integer; f is the float in millionths.
FloatToInt16(f) ==
    LET sample == clamp(f, -1000000, 1000000)
    IN  IF sample < 0 THEN ToInt16(TRUE, ScaleMicro(-sample, 32768))
        ELSE ToInt16(FALSE, ScaleMicro(sample, 32767))

\* toInt16 of bufferToMp3IfAvailable: one channel as an Int16Array.
toInt16(buffer, channel) ==
    [i \in 1..buffer.length |-> FloatToInt16(SampleMicro(buffer, channel, i - 1))]

\* The n bytes of value, least significant first (littleEndian = true).
RECURSIVE LittleEndian(_, _)
LittleEndian(value, n) ==
    IF n = 0 THEN <<>> ELSE <<value % 256>> \o LittleEndian(value \div 256, n - 1)

\* One store into the DataView: the bytes written from offset on.
WriteAt(offset, bytes) == [offset |-> offset, bytes |-> bytes]

setUint32(offset, value) == WriteAt(offset, LittleEndian(value, 4))

setUint16(offset, value) == WriteAt(offset, LittleEndian(value, 2))

setInt16(offset, value) == WriteAt(offset, LittleEndian(value % 65536, 2))

\* The char codes of the four tags writeString stores.
Tags ==
    [RIFF |-> <<82, 73, 70, 70>>, WAVE |-> <<87, 65, 86, 69>>,
     fmt |-> <<102, 109, 116, 32>>, data |-> <<100, 97, 116, 97>>]

\* Mutation: the loops are nested the other way round (channel by channel).
ChannelMajorOrder(buffer) ==
    [k \in 1..(buffer.length * buffer.numberOfChannels) |->
        <<(k - 1) % buffer.length, (k - 1) \div buffer.length>>]

\* The <<i, channel>> pairs in the order the nested loops visit them.
SampleOrder(buffer) ==
    [k \in 1..(buffer.length * buffer.numberOfChannels) |->
        <<(k - 1) \div buffer.numberOfChannels, (k - 1) % buffer.numberOfChannels>>]

\* The content of an ArrayBuffer of size bytes (zero-filled when created)
\* after the stores writes, in order: a byte holds what was stored last.
BytesAfter(size, writes) ==
    [o \in 0..(size - 1) |->
        LET covering == {k \in DOMAIN writes :
                            /\ writes[k].offset <= o
                            /\ o < writes[k].offset + Len(writes[k].bytes)}
        IN  IF covering = {} THEN 0
            ELSE LET w == writes[MaxOf(covering)] IN w.bytes[o - w.offset + 1]]

\* bufferToWav: the Blob, with the stores that filled it.
bufferToWav(buffer) ==
    LET numberOfChannels == buffer.numberOfChannels
        length == buffer.length * numberOfChannels * 2
        header == << WriteAt(0, Tags.RIFF), setUint32(4, 36 + length),
                     WriteAt(8, Tags.WAVE), WriteAt(12, Tags.fmt),
                     setUint32(16, 16), setUint16(20, 1),
                     setUint16(22, numberOfChannels), setUint32(24, SampleRate),
                     setUint32(28, SampleRate * numberOfChannels * 2),
                     setUint16(32, numberOfChannels * 2), setUint16(34, 16),
                     WriteAt(36, Tags.data), setUint32(40, length) >>
        order == SampleOrder(buffer)
        samples == [k \in DOMAIN order |->
                       setInt16(44 + 2 * (k - 1),
                                FloatToInt16(SampleMicro(buffer, order[k][2], order[k][1])))]
        writes == header \o samples
    IN  [type |-> "audio/wav", size |-> 44 + length, writes |-> writes,
         bytes |-> BytesAfter(44 + length, writes)]

NoWav == [buffer |-> NoBuffer]

\* Longest buffer the encoders are applied to, in samples.
MaxWavLen == 2

\* Mono and stereo buffers of 1..MaxWavLen frames with samples -9, 0, 2 and 9
\* times 1 or 1000 units.
WavBuffers ==
    UNION {{Buffer(ch, e, data) : data \in SeqsOf(SeqsOf({-9, 0, 2, 9}, len), ch)} :
              ch \in 1..2, len \in 1..MaxWavLen, e \in {0, 3}}

Encode(b) ==
    /\ wav = NoWav
    /\ wav' = [buffer |-> b, blob |-> bufferToWav(b),
               pcm |-> [c \in 1..b.numberOfChannels |-> toInt16(b, c - 1)]]
    /\ UNCHANGED <<probe, built, store, http, chain, derived, shaper, playback, calls, rendered>>
    /\ UNCHANGED uiVars

\* ------------------------------------------------------------------ export

\* exportAudio invocations in one behaviour of the component.
MaxExports == 2

ExportStarted == <<[title |-> "Export Started", variant |-> "default"]>>

Mp3NotInstalled == <<[title |-> "MP3 Export Not Installed", variant |-> "destructive"]>>

\* file.name.split('.')[0]
Stem(name) == IF name = "a.wav" THEN "a" ELSE name

\* a.download and the Blob behind a.href when a.click() runs.
Download(e, blob) ==
    [name |-> <<"trapmaster-pro", e.selectedPreset, Stem(e.file), e.format>>,
     blob |-> blob]

\* The Blob of bufferToWav as the download sees it: its type and its size.
WavBlob(buffer) ==
    LET blob == bufferToWav(buffer) IN [type |-> blob.type, size |-> blob.size]

\* Mutation: the early return leaves without running the finally block.
Mp3MissingSkipsFinally(k) ==
    /\ exports[k].outcome = "pending"
    /\ exports' = [exports EXCEPT ![k].outcome = "unavailable"]
    /\ toasts' = toasts \o Mp3NotInstalled
    /\ UNCHANGED <<audioBuffer, file, processedBuffer, selectedPreset, compareMode,
                   isProcessing, renderTokenRef, decoding, mutations, downloads>>
    /\ UNCHANGED <<probe, built, wav, store, http, chain, derived, shaper, playback, calls, rendered>>

\* exportAudio up to its await: nothing without a processed buffer and a
\* file; a WAV export runs to its end, an MP3 export waits for the encoder.
exportAudio(format) ==
    /\ processedBuffer # NoBuffer
    /\ file # ""
    /\ Len(exports) < MaxExports
    /\ LET e == [format |-> format, buffer |-> processedBuffer, file |-> file,
                 selectedPreset |-> selectedPreset]
       IN  IF format = "wav"
           THEN /\ exports' = Append(exports, e @@ [outcome |-> "downloaded"])
                /\ downloads' = Append(downloads, Download(e, WavBlob(processedBuffer)))
                /\ toasts' = toasts \o ExportStarted
                /\ isProcessing' = FALSE
           ELSE /\ exports' = Append(exports, e @@ [outcome |-> "pending"])
                /\ isProcessing' = TRUE
                /\ UNCHANGED <<downloads, toasts>>
    /\ UNCHANGED <<audioBuffer, file, processedBuffer, selectedPreset, compareMode,
                   renderTokenRef, decoding, mutations>>
    /\ UNCHANGED <<probe, built, wav, store, http, chain, derived, shaper, playback, calls, rendered>>

\* bufferToMp3IfAvailable resolved with null (lamejs cannot be imported): the
\* toast, the return, the finally.
Mp3Missing(k) ==
    /\ exports[k].outcome = "pending"
    /\ exports' = [exports EXCEPT ![k].outcome = "unavailable"]
    /\ toasts' = toasts \o Mp3NotInstalled
    /\ isProcessing' = FALSE
    /\ UNCHANGED <<audioBuffer, file, processedBuffer, selectedPreset, compareMode,
                   renderTokenRef, decoding, mutations, downloads>>
    /\ UNCHANGED <<probe, built, wav, store, http, chain, derived, shaper, playback, calls, rendered>>

\* bufferToMp3IfAvailable resolved with a Blob: the download, the toast, the
\* finally. The name is built from the closure's preset and file.
Mp3Encoded(k) ==
    /\ exports[k].outcome = "pending"
    /\ exports' = [exports EXCEPT ![k].outcome = "downloaded"]
    /\ downloads' = Append(downloads, Download(exports[k], [type |-> "audio/mpeg"]))
    /\ toasts' = toasts \o ExportStarted
    /\ isProcessing' = FALSE
    /\ UNCHANGED <<audioBuffer, file, processedBuffer, selectedPreset, compareMode,
                   renderTokenRef, decoding, mutations>>
    /\ UNCHANGED <<probe, built, wav, store, http, chain, derived, shaper, playback, calls, rendered>>

\* The encoder threw: catch and finally of exportAudio.
Mp3Threw(k) ==
    /\ exports[k].outcome = "pending"
    /\ exports' = [exports EXCEPT ![k].outcome = "failed"]
    /\ toasts' = Append(toasts, [title |-> "Export Error", variant |-> "destructive"])
    /\ isProcessing' = FALSE
    /\ UNCHANGED <<audioBuffer, file, processedBuffer, selectedPreset, compareMode,
                   renderTokenRef, decoding, mutations, downloads>>
    /\ UNCHANGED <<probe, built, wav, store, http, chain, derived, shaper, playback, calls, rendered>>

\* ------------------------------------------------------------ track store
\* class MemoryStorage of the server: data is the array of tracks, last is
\* the call made last, with its arguments and what it resolved with.

\* null and undefined of the language, where a string is expected.
Null == "<null>"

Undefined == "<undefined>"

\* new MemoryStorage(): data = [], nextId = 1; the clock stands for Date.
MemoryStorage == [data |-> <<>>, nextId |-> 1, clock |-> 0, last |-> [op |-> "new"]]

\* insertTrack.f ?? fallback
OrElse(insertTrack, f, fallback) ==
    IF Has(insertTrack, f) /\ insertTrack[f] # Null THEN insertTrack[f] ELSE fallback

\* Mutation: the counter is read and not advanced.
IdReadOnly(nextId) == nextId

\* this.nextId++ : the counter after the track took its id.
IdAdvanced(nextId) == nextId + 1

\* Mutation: the track is pushed to the end of the array.
Pushed(data, track) == Append(data, track)

\* this.data.unshift(track)
Unshifted(data, track) == <<track>> \o data

\* The track object createTrack builds.
NewTrack(insertTrack, id, now) ==
    [id |-> id,
     title |-> IF Has(insertTrack, "title") THEN insertTrack.title ELSE Undefined,
     artist |-> OrElse(insertTrack, "artist", Null),
     createdAt |-> now,
     videoStatus |-> OrElse(insertTrack, "videoStatus", "pending"),
     videoUrl |-> OrElse(insertTrack, "videoUrl", Null)]

\* Mutation: an omitted url leaves the stored one.
UrlKeptWhenOmitted(t, url) == IF url = Undefined THEN t.videoUrl ELSE url

\* url ?? null
UrlOrNull(t, url) == IF url = Undefined \/ url = Null THEN Null ELSE url

\* Tracks one behaviour creates.
MaxTracks == 3

\* The storage after createTrack(insertTrack), called when the clock has
\* advanced by tick.
AfterCreate(s, insertTrack, tick) ==
    LET now == s.clock + tick
        track == NewTrack(insertTrack, s.nextId, now)
    IN  [data |-> Unshifted(s.data, track),
         nextId |-> IdAdvanced(s.nextId),
         clock |-> now,
         last |-> [op |-> "createTrack", input |-> insertTrack, result |-> track]]

\* createTrack(insertTrack), called when the clock has advanced by tick.
createTrack(insertTrack, tick) ==
    /\ Len(store.data) < MaxTracks
    /\ store' = AfterCreate(store, insertTrack, tick)
    /\ UNCHANGED <<probe, built, wav, http, chain, derived, shaper, playback, calls, rendered>>
    /\ UNCHANGED uiVars

\* getTracks(): the array itself.
getTracks ==
    /\ store' = [store EXCEPT !.last = [op |-> "getTracks", result |-> store.data]]
    /\ UNCHANGED <<probe, built, wav, http, chain, derived, shaper, playback, calls, rendered>>
    /\ UNCHANGED uiVars

\* The storage after updateVideoStatus(id, status, url); url is Undefined when
\* it is omitted.
AfterUpdate(s, id, status, url) ==
    LET found == {k \in DOMAIN s.data : s.data[k].id = id}
    IN  IF found = {}
        THEN [s EXCEPT !.last = [op |-> "updateVideoStatus", id |-> id,
                                 status |-> status, url |-> url,
                                 result |-> Undefined]]
        ELSE LET k == CHOOSE j \in found : \A i \in found : j <= i
                 t == [s.data[k] EXCEPT !.videoStatus = status,
                                        !.videoUrl = UrlOrNull(s.data[k], url)]
             IN  [s EXCEPT !.data[k] = t,
                           !.last = [op |-> "updateVideoStatus", id |-> id,
                                     status |-> status, url |-> url, result |-> t]]

\* updateVideoStatus(id, status, url)
updateVideoStatus(id, status, url) ==
    /\ store' = AfterUpdate(store, id, status, url)
    /\ UNCHANGED <<probe, built, wav, http, chain, derived, shaper, playback, calls, rendered>>
    /\ UNCHANGED uiVars

\* The bodies POST /api/tracks accepts: filename and preset, the rest optional.
InsertTracks ==
    {[filename |-> "a.wav", preset |-> "deharsh"] @@ format @@ status @@ url :
        format \in {<<>>, [format |-> "mp3"]},
        status \in {<<>>, [videoStatus |-> "processing"]},
        url \in {<<>>, [videoUrl |-> "u1"]}}

\* ------------------------------------------------------------ the routes
\* The express handlers of registerRoutes in front of the storage. http holds
\* the last request and the response it was answered with.

\* err.errors of insertTrackSchema.parse(body): the paths of the issues, in
\* the order of the table's columns. filename and preset are required
\* strings, format and videoStatus (not null, with a default) optional
\* strings, videoUrl and lyrics optional and nullable strings.
InsertIssues(body) ==
    SelectSeq(<<"filename", "preset", "format", "videoStatus", "videoUrl", "lyrics">>,
              LAMBDA f :
                  IF Has(body, f)
                  THEN body[f] = Null /\ f \notin {"videoUrl", "lyrics"}
                  ELSE f \in {"filename", "preset"})

\* Mutation: every string is a status.
AnyStatus == {"processing", "complete", "failed", "done"}

\* z.enum(['processing', 'complete', 'failed'])
VideoStatuses == {"processing", "complete", "failed"}

\* err.errors of api.tracks.updateVideoStatus.input.parse(body): status is a
\* member of the enumeration, url an optional string.
VideoStatusIssues(body) ==
    SelectSeq(<<"status", "url">>,
              LAMBDA f : IF f = "status"
                         THEN ~Has(body, f) \/ body[f] \notin VideoStatuses
                         ELSE Has(body, f) /\ body[f] = Null)

\* POST /api/tracks. parse returns the keys of the schema.
PostTrack(body) ==
    /\ IF InsertIssues(body) # <<>>
       THEN /\ http' = [route |-> "POST /api/tracks", body |-> body, status |-> 400,
                        json |-> [message |-> "Required",
                                  field |-> InsertIssues(body)[1]]]
            /\ UNCHANGED store
       ELSE LET input == [f \in DOMAIN body \cap
                               {"filename", "preset", "format", "videoStatus",
                                "videoUrl", "lyrics"} |-> body[f]]
            IN  /\ Len(store.data) < MaxTracks
                /\ store' = AfterCreate(store, input, 1)
                /\ http' = [route |-> "POST /api/tracks", body |-> body,
                            status |-> 201, json |-> store'.last.result]
    /\ UNCHANGED <<probe, built, wav, chain, derived, shaper, playback, calls, rendered>>
    /\ UNCHANGED uiVars

\* GET /api/tracks
ListTracks ==
    /\ store' = [store EXCEPT !.last = [op |-> "getTracks", result |-> store.data]]
    /\ http' = [route |-> "GET /api/tracks", status |-> 200, json |-> store.data]
    /\ UNCHANGED <<probe, built, wav, chain, derived, shaper, playback, calls, rendered>>
    /\ UNCHANGED uiVars

\* PATCH /api/tracks/:id/video. parseInt(req.params.id) is NaN for a parameter
\* that is no number (-1 here: it equals no id). updateVideoStatus resolves
\* with undefined when no stored track has the id.
PatchVideoStatus(param, body) ==
    /\ LET id == CASE param = "2" -> 2 [] param = "4" -> 4 [] OTHER -> -1
           request == [route |-> "PATCH /api/tracks/:id/video", id |-> param,
                       body |-> body]
       IN  IF VideoStatusIssues(body) # <<>>
           THEN /\ http' = request @@ [status |-> 400, json |-> [message |-> "Invalid"]]
                /\ UNCHANGED store
           ELSE /\ store' = AfterUpdate(store, id, body.status,
                                        IF Has(body, "url") THEN body.url ELSE Undefined)
                /\ IF \A k \in DOMAIN store.data : store.data[k].id # id
                   THEN http' = request @@ [status |-> 404,
                                            json |-> [message |-> "Track not found"]]
                   ELSE http' = request @@ [status |-> 200, json |-> store'.last.result]
    /\ UNCHANGED <<probe, built, wav, chain, derived, shaper, playback, calls, rendered>>
    /\ UNCHANGED uiVars

\* ------------------------------------------------------ the spec builder
\* The builder is a pure function of the catalog entry. It is applied to every
\* preset key with the settings of the catalog and with settings whose sliders
\* lie inside and outside the nominal range.

NoBuild == [key |-> ""]

\* Sliders at -9, 0, 4.5 and 9, compression at 0, 4 and 20.
SliderSettings ==
    {Settings(b, m, h, c, -90) :
        b \in {-90, 0, 45, 90}, m \in {-90, 0, 45, 90}, h \in {-90, 0, 45, 90},
        c \in {0, 40, 200}}

SettingsFor(key) ==
    {presets[key]}
    \cup {s @@ Field(Has(presets[key], "special"), [special |-> presets[key].special]) :
            s \in SliderSettings}

Build(key, s) ==
    /\ built = NoBuild
    /\ built' = [key |-> key, settings |-> s, dsp |-> buildDSPWith(key, s)]
    /\ UNCHANGED <<probe, wav, store, http, chain, derived, shaper, playback, calls, rendered>>
    /\ UNCHANGED uiVars

\* ------------------------------------------------------- filter chain

MaxEqLen == 3

\* applyFilterChain(ctx, input, eq) on an EQ list of the EQNodeSpec union.
ApplyChain(eq) ==
    /\ ~chain.applied
    /\ chain' = [applied |-> TRUE, eq |-> eq, out |-> applyFilterChain(eq)]
    /\ UNCHANGED <<probe, built, wav, store, http, derived, shaper, playback, calls, rendered>>
    /\ UNCHANGED uiVars

\* ------------------------------------------------- compression slider

MaxDerived == 2

\* const multiband of buildDSPForPreset for one more compression value.
DeriveMultiband(compression) ==
    /\ Len(derived) < MaxDerived
    /\ derived' = Append(derived,
                         [compression |-> compression,
                          multiband |-> SliderMultiband(Settings(0, 0, 0, compression, -90))])
    /\ UNCHANGED <<probe, built, wav, store, http, chain, shaper, playback, calls, rendered>>
    /\ UNCHANGED uiVars

\* ------------------------------------------------------ stereo shaper

\* applyStereoShaping(ctx, input, stereo, numChannels): the nodes it creates
\* and the connections it makes; with fewer than two channels it returns at
\* once.
ShapeStereo(stereo, numChannels) ==
    /\ ~shaper.applied
    /\ shaper' = [applied |-> TRUE, stereo |-> stereo, numChannels |-> numChannels,
                  nodes |-> applyStereoShaping(stereo, numChannels),
                  conns |-> IF applyStereoShaping(stereo, numChannels) = <<>>
                            THEN <<>> ELSE StereoConnections(stereo)]
    /\ UNCHANGED <<probe, built, wav, store, http, chain, derived, playback, calls, rendered>>
    /\ UNCHANGED uiVars

\* ----------------------------------------------------------- playback

MaxSources == 3

MaxTimers == 2

\* The refs and the state playback uses, before a file is decoded. started
\* holds the sources whose start() was called and whose stop() was not, with
\* what each plays; awaiting holds the startPlayback calls suspended on
\* resume(); timers holds the setTimeout callbacks not yet run or cleared,
\* with the call each makes, rendering the applyPremiumProcessing calls whose
\* render is in flight. A processed buffer is named by the token of the
\* request that rendered it, 0 is null. A state update is committed, and the
\* effect that copies compareMode to compareModeRef has run, before the next
\* event is handled. hold follows
\* the pointer on a preset button: down when handleHoldStart returned at
\* once, switched when it left 'preset' mode, held when the mode was
\* 'original' already; last is the handler that ran last.
NoPlayback ==
    [audioContext |-> "none", sourceNodeRef |-> 0, created |-> 0, started |-> {},
     awaiting |-> <<>>, timers |-> {}, scheduled |-> 0,
     pendingStartTimeoutRef |-> 0, rendering |-> {},
     renderTokenRef |-> 0, processedBuffer |-> 0, selectedPreset |-> "deharsh",
     compareMode |-> "preset", hold |-> "up", isPlaying |-> FALSE,
     last |-> [op |-> "new"]]

clearPendingStart(p) ==
    IF p.pendingStartTimeoutRef # 0
    THEN [p EXCEPT !.timers = {t \in @ : t.id # p.pendingStartTimeoutRef},
                   !.pendingStartTimeoutRef = 0]
    ELSE p

stopAudio(p) ==
    LET q == clearPendingStart(p)
    IN  IF q.sourceNodeRef # 0
        THEN [q EXCEPT !.started = {source \in @ : source.id # q.sourceNodeRef},
                       !.sourceNodeRef = 0, !.isPlaying = FALSE]
        ELSE [q EXCEPT !.isPlaying = FALSE]

\* A call startPlayback(offset, mode) of the render in which processedBuffer
\* is processed; tap is the token of the preset tap that makes the call, 0
\* for any other caller.
Call(mode, processed, tap) == [mode |-> mode, processedBuffer |-> processed, tap |-> tap]

\* startPlayback after its await: bufferToUse is audioBuffer or, in 'preset'
\* mode, processedBuffer of the render the called startPlayback belongs to;
\* nothing without a buffer, else a new source is created, started and
\* stored in sourceNodeRef.
StartSource(p, call) ==
    IF call.mode = "preset" /\ call.processedBuffer = 0 THEN p
    ELSE [p EXCEPT !.created = @ + 1,
                   !.started = @ \cup {[id |-> p.created + 1, mode |-> call.mode,
                                        tap |-> call.tap,
                                        buffer |-> IF call.mode = "preset"
                                                   THEN call.processedBuffer
                                                   ELSE 0]},
                   !.sourceNodeRef = p.created + 1, !.isPlaying = TRUE]

\* startPlayback up to its await, and to its end when the context needs no
\* resume().
startPlayback(p, call) ==
    IF p.audioContext = "none" THEN p
    ELSE LET q == clearPendingStart(p)
             r == IF q.sourceNodeRef # 0 THEN stopAudio(q) ELSE q
         IN  IF r.audioContext = "suspended"
             THEN [r EXCEPT !.awaiting = Append(@, call)]
             ELSE StartSource(r, call)

\* pendingStartTimeoutRef.current = window.setTimeout(...)
SetTimeout(p, call) ==
    [p EXCEPT !.scheduled = @ + 1,
              !.timers = @ \cup {[id |-> p.scheduled + 1, call |-> call]},
              !.pendingStartTimeoutRef = p.scheduled + 1]

\* handleFileUpload stores the AudioContext it created and calls
\* applyPremiumProcessing(decodedBuffer, 'deharsh'); the browser's autoplay
\* policy decides the state the context is created in.
ContextReady(state) ==
    /\ playback.audioContext = "none"
    /\ playback' = [playback EXCEPT
                       !.audioContext = state,
                       !.renderTokenRef = @ + 1,
                       !.rendering = {[token |-> playback.renderTokenRef + 1,
                                       presetKey |-> "deharsh", tap |-> FALSE,
                                       processedBuffer |-> playback.processedBuffer]},
                       !.last = [op |-> "handleFileUpload"]]
    /\ UNCHANGED <<probe, built, wav, store, http, chain, derived, shaper, calls, rendered>>
    /\ UNCHANGED uiVars

\* onClick of the play button: stopAudio while playing, else startPlayback
\* in the mode of compareModeRef.
PlayButton ==
    /\ playback.audioContext # "none"
    /\ playback.isPlaying \/ playback.created + Len(playback.awaiting) < MaxSources
    /\ playback' =
           [(IF playback.isPlaying THEN stopAudio(playback)
             ELSE startPlayback(playback, Call(playback.compareMode,
                                               playback.processedBuffer, 0)))
            EXCEPT !.last = [op |-> "play"]]
    /\ UNCHANGED <<probe, built, wav, store, http, chain, derived, shaper, calls, rendered>>
    /\ UNCHANGED uiVars

\* handleHoldStart: nothing unless something plays, else 'original' mode,
\* stopAudio and a deferred startPlayback.
HoldStart ==
    /\ playback.audioContext # "none"
    /\ playback.hold = "up"
    /\ playback.isPlaying => playback.scheduled < MaxTimers
    /\ playback' =
           IF ~playback.isPlaying
           THEN [playback EXCEPT !.hold = "down", !.last = [op |-> "handleHoldStart"]]
           ELSE [SetTimeout(stopAudio([playback EXCEPT !.compareMode = "original"]),
                            Call("original", playback.processedBuffer, 0))
                 EXCEPT !.hold = IF playback.compareMode = "preset" THEN "switched"
                                 ELSE "held",
                        !.last = [op |-> "handleHoldStart"]]
    /\ UNCHANGED <<probe, built, wav, store, http, chain, derived, shaper, calls, rendered>>
    /\ UNCHANGED uiVars

\* handleHoldEnd, when the pointer that went down is released: nothing unless
\* something plays in 'original' mode, else 'preset' mode, stopAudio and a
\* deferred startPlayback.
HoldEnd ==
    /\ playback.hold # "up"
    /\ (playback.isPlaying /\ playback.compareMode # "preset") =>
           playback.scheduled < MaxTimers
    /\ playback' =
           IF ~playback.isPlaying \/ playback.compareMode = "preset"
           THEN [playback EXCEPT !.hold = "up", !.last = [op |-> "handleHoldEnd"]]
           ELSE [SetTimeout(stopAudio([playback EXCEPT !.compareMode = "preset"]),
                            Call("preset", playback.processedBuffer, 0))
                 EXCEPT !.hold = "up", !.last = [op |-> "handleHoldEnd"]]
    /\ UNCHANGED <<probe, built, wav, store, http, chain, derived, shaper, calls, rendered>>
    /\ UNCHANGED uiVars

\* toggleCompare: the other mode, and while something plays stopAudio and a
\* deferred startPlayback.
CompareToggled ==
    /\ playback.audioContext # "none"
    /\ playback.isPlaying => playback.scheduled < MaxTimers
    /\ LET nextMode == IF playback.compareMode = "preset" THEN "original" ELSE "preset"
           p == [playback EXCEPT !.compareMode = nextMode,
                                 !.last = [op |-> "toggleCompare"]]
       IN  playback' = IF playback.isPlaying
                       THEN SetTimeout(stopAudio(p),
                                       Call(nextMode, playback.processedBuffer, 0))
                       ELSE p
    /\ UNCHANGED <<probe, built, wav, store, http, chain, derived, shaper, calls, rendered>>
    /\ UNCHANGED uiVars

\* The tap renders nothing: the tapped preset is selected and heard.
SameTap(p, presetKey) == p.selectedPreset = presetKey /\ p.compareMode = "preset"

\* handlePresetInteraction up to its await: stopAudio, then
\* applyPremiumProcessing unless the tapped preset is the one heard.
PresetTapped(presetKey) ==
    /\ playback.audioContext # "none"
    /\ ~SameTap(playback, presetKey) =>
           /\ playback.renderTokenRef <= MaxTimers
           /\ playback.scheduled + Cardinality({r \in playback.rendering : r.tap})
                  < MaxTimers
    /\ LET p == [stopAudio(playback) EXCEPT
                    !.last = [op |-> "handlePresetInteraction", presetKey |-> presetKey]]
       IN  playback' =
               IF SameTap(playback, presetKey) THEN p
               ELSE [p EXCEPT !.renderTokenRef = @ + 1,
                              !.rendering = @ \cup
                                  {[token |-> p.renderTokenRef + 1,
                                    presetKey |-> presetKey, tap |-> TRUE,
                                    processedBuffer |-> playback.processedBuffer]}]
    /\ UNCHANGED <<probe, built, wav, store, http, chain, derived, shaper, calls, rendered>>
    /\ UNCHANGED uiVars

\* Mutation: a request commits whatever the token is.
AnyToken(p, token) == TRUE

\* token === renderTokenRef.current
IsLatest(p, token) == token = p.renderTokenRef

\* processAudioPremium settles for the request with the token:
\* applyPremiumProcessing commits the buffer and the preset when the render
\* resolved and the token is the latest; handlePresetInteraction then sets
\* 'preset' mode and a deferred startPlayback.
PresetRendered(token, resolved) ==
    /\ \E r \in playback.rendering :
           /\ r.token = token
           /\ LET p == [playback EXCEPT
                            !.rendering = @ \ {r},
                            !.last = [op |-> "settled", resolved |-> resolved]]
                  q == [p EXCEPT !.processedBuffer = token,
                                 !.selectedPreset = r.presetKey]
              IN  playback' =
                      IF ~(resolved /\ IsLatest(playback, token)) THEN p
                      ELSE IF ~r.tap THEN q
                      ELSE SetTimeout([q EXCEPT !.compareMode = "preset"],
                                      Call("preset", r.processedBuffer, token))
    /\ UNCHANGED <<probe, built, wav, store, http, chain, derived, shaper, calls, rendered>>
    /\ UNCHANGED uiVars

\* A setTimeout callback runs: startPlayback.
TimerFired(id) ==
    /\ playback.created + Len(playback.awaiting) < MaxSources
    /\ \E t \in playback.timers :
           /\ t.id = id
           /\ playback' = [startPlayback([playback EXCEPT !.timers = @ \ {t}], t.call)
                           EXCEPT !.last = [op |-> "timer"]]
    /\ UNCHANGED <<probe, built, wav, store, http, chain, derived, shaper, calls, rendered>>
    /\ UNCHANGED uiVars

RECURSIVE Continued(_, _)
\* The calls suspended on resume() continue one after the other.
Continued(p, suspended) ==
    IF suspended = <<>> THEN p
    ELSE Continued(StartSource(p, Head(suspended)), Tail(suspended))

\* The context is running: every resume() promise is resolved in that one
\* task, and the suspended calls continue before any other event is handled.
ResumeResolved ==
    /\ playback.audioContext = "suspended"
    /\ playback.awaiting # <<>>
    /\ playback' = Continued([playback EXCEPT !.audioContext = "running",
                                              !.awaiting = <<>>,
                                              !.last = [op |-> "resumed"]],
                             playback.awaiting)
    /\ UNCHANGED <<probe, built, wav, store, http, chain, derived, shaper, calls, rendered>>
    /\ UNCHANGED uiVars

Init ==
    /\ probe = NoProbe
    /\ built = NoBuild
    /\ wav = NoWav
    /\ store = MemoryStorage
    /\ http = [route |-> "none", status |-> 0]
    /\ chain = [applied |-> FALSE, eq |-> <<>>, out |-> <<>>]
    /\ derived = <<>>
    /\ shaper = [applied |-> FALSE]
    /\ playback = NoPlayback
    /\ calls = <<>>
    /\ rendered = {}
    /\ audioBuffer = NoBuffer
    /\ file = ""
    /\ processedBuffer = NoBuffer
    /\ selectedPreset = "deharsh"
    /\ compareMode = "preset"
    /\ isProcessing = FALSE
    /\ renderTokenRef = 0
    /\ decoding = {}
    /\ toasts = <<>>
    /\ mutations = <<>>
    /\ exports = <<>>
    /\ downloads = <<>>

NextAnalyzer == \E b \in ProbeBuffers : Analyze(b)

SpecAnalyzer == Init /\ [][NextAnalyzer]_vars

NextBuilder == \E key \in PresetKeys : \E s \in SettingsFor(key) : Build(key, s)

SpecBuilder == Init /\ [][NextBuilder]_vars

NextWav == \E b \in WavBuffers : Encode(b)

SpecWav == Init /\ [][NextWav]_vars

NextStore ==
    \/ \E insertTrack \in InsertTracks : createTrack(insertTrack, 1)
    \/ getTracks
    \/ \E id \in 0..(MaxTracks + 1), status \in {"processing", "complete"},
          url \in {Undefined, "u2"} : updateVideoStatus(id, status, url)

SpecStore == Init /\ [][NextStore]_vars

\* Bodies of POST /api/tracks: accepted ones, one of them with a key the schema
\* does not know, and bodies that lack a column or carry null where a string
\* is required. Bodies of PATCH /api/tracks/:id/video: a status inside and
\* outside the enumeration, null or none, with a url, with null or without.
NextRoutes ==
    LET PostBodies ==
            {[filename |-> "a.wav", preset |-> "deharsh"],
             [filename |-> "a.wav", preset |-> "deharsh", title |-> "t"],
             [filename |-> "a.wav", preset |-> "deharsh", lyrics |-> Null],
             [preset |-> "deharsh"],
             [filename |-> "a.wav"],
             [filename |-> Null, preset |-> "deharsh"],
             [filename |-> "a.wav", preset |-> "deharsh", format |-> Null]}
        PatchBodies ==
            {status @@ url :
                status \in {[status |-> v] : v \in {"complete", "failed", "done", Null}},
                url \in {<<>>, [url |-> "u2"], [url |-> Null]}}
            \cup {[url |-> "u2"]}
    IN  \/ \E body \in PostBodies : PostTrack(body)
        \/ ListTracks
        \/ \E param \in {"2", "4", "x"}, body \in PatchBodies :
              PatchVideoStatus(param, body)

SpecRoutes == Init /\ [][NextRoutes]_vars

\* EQ lists over the four node types, a high-pass with order 2, with order 1
\* and with neither order nor q.
NextChain ==
    LET EqNodes == {hpf(40, 2, 707), hpf(80, 1, 500), [type |-> "hpf", freq |-> 60],
                    lowshelf(120, 20, 1000), highshelf(12000, -10, 700),
                    bell(1500, 15, 1100)}
    IN  \E n \in 0..MaxEqLen : \E eq \in [1..n -> EqNodes] : ApplyChain(eq)

SpecChain == Init /\ [][NextChain]_vars

\* Compression values from below 1.5 to above 7, in steps of 0.5.
NextSlider ==
    \E compression \in {-10, 200} \cup {5 * n : n \in 0..20} : DeriveMultiband(compression)

SpecSlider == Init /\ [][NextSlider]_vars

\* Stereo specs with each field absent or present, widths below, inside and
\* above the clamps. No pair of widths is 0.01 apart, where the comparison with
\* 0.01 depends on the floating-point rounding of the difference.
NextShaper ==
    \E mono \in {<<>>, [monoBelowHz |-> 0], [monoBelowHz |-> 120]},
       overall \in {<<>>} \cup {[overallWidth |-> w] : w \in {40, 110, 200}},
       high \in {<<>>} \cup {[widthHighOnly |-> [freq |-> 4000, width |-> w]] :
                                w \in {30, 100, 110, 125, 200}},
       numChannels \in 1..2 :
        ShapeStereo(mono @@ overall @@ high, numChannels)

SpecShaper == Init /\ [][NextShaper]_vars

NextPlayback ==
    \/ \E state \in {"suspended", "running"} : ContextReady(state)
    \/ PlayButton
    \/ HoldStart
    \/ HoldEnd
    \/ CompareToggled
    \/ \E presetKey \in {"deharsh", "festival"} : PresetTapped(presetKey)
    \/ \E token \in 1..(MaxTimers + 1), resolved \in BOOLEAN :
          PresetRendered(token, resolved)
    \/ \E id \in 1..MaxTimers : TimerFired(id)
    \/ ResumeResolved

SpecPlayback == Init /\ [][NextPlayback]_vars

NextRender ==
    \/ \E b \in InputBuffers, k \in PresetKeys, a \in BOOLEAN : DirectCall(b, k, a)
    \/ \E i \in DOMAIN calls : AnalysisRendered(i, WideWaves)
    \/ \E i \in DOMAIN calls : Measured(i, WideWaves)
    \/ \E i \in DOMAIN calls : FinalRendered(i, WideWaves)
    \/ \E i \in DOMAIN calls : RenderRejected(i)

SpecRender == Init /\ [][NextRender]_vars

Next ==
    \/ \E f \in {"a.wav"} : handleFileUpload(f)
    \/ \E d \in decoding, b \in DecodedBuffers : DecodeDone(d, b)
    \/ \E d \in decoding : DecodeFailed(d)
    \/ \E k \in {"deharsh", "festival"} : handlePresetInteraction(k)
    \/ toggleCompare
    \/ \E i \in DOMAIN calls : AnalysisRendered(i, NarrowWaves)
    \/ \E i \in DOMAIN calls : Measured(i, NarrowWaves)
    \/ \E i \in DOMAIN calls : FinalRendered(i, NarrowWaves)
    \/ \E i \in DOMAIN calls : RenderRejected(i)

Spec == Init /\ [][Next]_vars

\* The component with its export buttons.
NextExport ==
    \/ \E f \in {"a.wav"} : handleFileUpload(f)
    \/ \E d \in decoding, b \in DecodedBuffers : DecodeDone(d, b)
    \/ \E k \in {"deharsh", "festival"} : handlePresetInteraction(k)
    \/ \E i \in DOMAIN calls : AnalysisRendered(i, NarrowWaves)
    \/ \E i \in DOMAIN calls : Measured(i, NarrowWaves)
    \/ \E i \in DOMAIN calls : FinalRendered(i, NarrowWaves)
    \/ \E format \in {"wav", "mp3"} : exportAudio(format)
    \/ \E k \in DOMAIN exports : Mp3Missing(k)
    \/ \E k \in DOMAIN exports : Mp3Encoded(k)
    \/ \E k \in DOMAIN exports : Mp3Threw(k)

SpecExport == Init /\ [][NextExport]_vars

\* ------------------------------------------------------------ properties

Entered(c, phase) == \E k \in DOMAIN c.phases : c.phases[k] = phase

IsPrefix(s, t) == Len(s) <= Len(t) /\ \A k \in DOMAIN s : s[k] = t[k]

\* The trim gain the graph of the final pass applies.
TrimOfGraph(graph) == graph[Len(graph)].nodes[1].gainDb

\* C1: for every measured loudness and every pass-1 true peak, the trim handed
\* to the final render keeps the predicted peak at or below the ceiling,
\* tpPre + trimDb <= ceilingDbFS, also after the clamp to trimClampDb.
C1_PostTrimPeakWithinCeiling ==
    \A i \in DOMAIN calls :
        Entered(calls[i], "FinalRender") =>
            calls[i].tpPre + TrimOfGraph(calls[i].finalGraph)
                <= calls[i].dsp.output.ceilingDbFS

\* C2: the trim of the final pass is clamp(t, min, max) with t the loudness
\* trim target - measured when the predicted peak tpPre + (target - measured)
\* is within the ceiling, and min(target - measured, ceiling - tpPre) otherwise.
C2_TrimIsLoudnessThenPeakThenClamp ==
    \A i \in DOMAIN calls :
        Entered(calls[i], "FinalRender") =>
            LET out == calls[i].dsp.output
                tpPre == calls[i].tpPre
                loudness == FSub(out.targetIntegratedLUFS, calls[i].integrated)
                t == IF FAdd(tpPre, loudness) <= out.ceilingDbFS THEN loudness
                     ELSE Min(loudness, out.ceilingDbFS - tpPre)
            IN  TrimOfGraph(calls[i].finalGraph)
                    = Max(out.trimClampDb.min, Min(out.trimClampDb.max, t))

\* A finished call whose trim is the peak override itself: the loudness trim
\* would pass the ceiling, and ceiling - tpPre lies inside the clamp range.
C2_Witness ==
    \E i \in DOMAIN calls :
        /\ Phase(calls[i]) = "Done"
        /\ IsFinite(calls[i].integrated)
        /\ calls[i].tpPre + (-140 - calls[i].integrated) > -5
        /\ TrimOfGraph(calls[i].finalGraph) = -5 - calls[i].tpPre
        /\ TrimOfGraph(calls[i].finalGraph) > -240
        /\ TrimOfGraph(calls[i].finalGraph) < 120

\* The trimClampDb of the presets of the catalog.
CatalogTrimClamps == {buildDSPForPreset(k).output.trimClampDb : k \in PresetKeys}

\* C3: whenever the final pass is rendered its trim lies in
\* [trimClampDb.min, trimClampDb.max], which is [-24, +12] dB for every preset
\* of the catalog, whatever the analysis measured (the -70 fallback and the
\* value of a buffer without a block included).
C3_TrimWithinClampRange ==
    /\ CatalogTrimClamps = {[min |-> -240, max |-> 120]}
    /\ \A i \in DOMAIN calls :
           Entered(calls[i], "FinalRender") =>
               /\ TrimOfGraph(calls[i].finalGraph) >= -240
               /\ TrimOfGraph(calls[i].finalGraph) <= 120
               /\ calls[i].trimDb = TrimOfGraph(calls[i].finalGraph)

\* A finished call on a buffer without a 400 ms block: no loudness measured.
C3_Witness ==
    \E i \in DOMAIN calls :
        /\ Phase(calls[i]) = "Done"
        /\ calls[i].integrated = NegInfinity
        /\ calls[i].tpPre > -2400

\* The phases of one request so far: a prefix of PhaseOrder, or such a prefix
\* short of Done followed by Failed.
LegalTrace(phases) ==
    \/ IsPrefix(phases, PhaseOrder)
    \/ /\ Len(phases) >= 3
       /\ Last(phases) = "Failed"
       /\ Len(phases) <= Len(PhaseOrder)
       /\ IsPrefix(SubSeq(phases, 1, Len(phases) - 1), PhaseOrder)

WellPhased(c, engine) ==
    /\ LegalTrace(c.phases)
    /\ c.preRenders = 1
    /\ c.finalRenders = IF Entered(c, "FinalRender") THEN 1 ELSE 0
    /\ Entered(c, "FinalRender") =>
           /\ [graph |-> c.preGraph, input |-> c.buffer, out |-> c.pre] \in engine
           /\ [graph |-> KWeightingGraph, input |-> c.pre, out |-> c.filtered] \in engine
           /\ c.integrated = integratedLUFS_R128Gated(c.filtered)
           /\ c.tpPre = estimateTruePeakDbFS(c.pre, 4)
    /\ Phase(c) = "Done" =>
           [graph |-> c.finalGraph, input |-> c.buffer, out |-> c.final] \in engine

\* C4: a request goes through Idle, AnalysisRender, Measuring, TrimComputed,
\* FinalRender, Done in this order, never skipping or re-entering a phase; the
\* final render starts only after the analysis render has completed and
\* loudness and true peak were measured on its output; each pass is rendered
\* once.
C4_PhasesInOrder ==
    [][\A i \in DOMAIN calls' :
          /\ WellPhased(calls'[i], rendered')
          /\ i \in DOMAIN calls => IsPrefix(calls[i].phases, calls'[i].phases)]_vars

\* A request that went through all six phases, each pass rendered once.
C4_Witness ==
    \E i \in DOMAIN calls :
        /\ calls[i].phases = <<"Idle", "AnalysisRender", "Measuring", "TrimComputed",
                               "FinalRender", "Done">>
        /\ calls[i].preRenders = 1
        /\ calls[i].finalRenders = 1
        /\ ~IsSilent(calls[i].pre)

Completes(i) == Phase(calls[i]) = "FinalRender" /\ Phase(calls'[i]) = "Done"

\* C5: a completing render is committed to processedBuffer and selectedPreset
\* exactly when its token is the latest one issued; a superseded render goes
\* through every phase and leaves both untouched; nothing else writes them;
\* tokens grow strictly from request to request.
C5_OnlyLatestTokenCommits ==
    [][/\ \A i \in DOMAIN calls :
             Completes(i) =>
                 /\ calls'[i].phases = PhaseOrder
                 /\ IF calls[i].token = renderTokenRef
                    THEN /\ processedBuffer' = calls'[i].final
                         /\ selectedPreset' = calls[i].presetKey
                    ELSE /\ processedBuffer' = processedBuffer
                         /\ selectedPreset' = selectedPreset
       /\ (processedBuffer' # processedBuffer \/ selectedPreset' # selectedPreset) =>
             \E i \in DOMAIN calls : Completes(i) /\ calls[i].token = renderTokenRef
       /\ \A i, j \in DOMAIN calls' : i < j => calls'[i].token < calls'[j].token
       /\ \A i \in DOMAIN calls' : calls'[i].token <= renderTokenRef'
       /\ renderTokenRef' >= renderTokenRef]_vars

\* A superseded render has run to Done and the later request's result stands.
C5_Witness ==
    \E i, j \in DOMAIN calls :
        /\ i < j
        /\ calls[i].outcome = "stale"
        /\ Phase(calls[i]) = "Done"
        /\ calls[j].outcome = "committed"
        /\ calls[i].presetKey # calls[j].presetKey
        /\ selectedPreset = calls[j].presetKey
        /\ processedBuffer = calls[j].final

Fails(i) == Phase(calls[i]) # "Failed" /\ Phase(calls'[i]) = "Failed"

FailedCalls(cs) == {i \in DOMAIN cs : Phase(cs[i]) = "Failed"}

FailureReports(ts) == {k \in DOMAIN ts : ts[k].title = "Processing Failed"}

\* C6: when a render of a request fails the request ends there: no phase
\* follows, no pass is started again, no output buffer exists,
\* processedBuffer and selectedPreset keep their values, and the failure is
\* reported once.
C6_FailureAbortsRequest ==
    [][/\ \A i \in DOMAIN calls :
             /\ Fails(i) =>
                    /\ processedBuffer' = processedBuffer
                    /\ selectedPreset' = selectedPreset
                    /\ mutations' = mutations
                    /\ calls'[i].final = NoBuffer
                    /\ calls'[i].preRenders = calls[i].preRenders
                    /\ calls'[i].finalRenders = calls[i].finalRenders
                    /\ toasts' = Append(toasts, [title |-> "Processing Failed",
                                                 variant |-> "destructive"])
             /\ Phase(calls[i]) = "Failed" => calls'[i] = calls[i]
       /\ Cardinality(FailureReports(toasts')) = Cardinality(FailedCalls(calls'))]_vars

\* A final render failed after an earlier request was committed: the earlier
\* result is still the processed buffer.
C6_Witness ==
    \E i, j \in DOMAIN calls :
        /\ Phase(calls[i]) = "Failed"
        /\ Entered(calls[i], "FinalRender")
        /\ calls[j].outcome = "committed"
        /\ calls[j].presetKey # calls[i].presetKey
        /\ selectedPreset = calls[j].presetKey
        /\ processedBuffer = calls[j].final
        /\ \E k \in DOMAIN calls : Phase(calls[k]) = "Failed" /\ ~Entered(calls[k], "Measuring")

HasOutputNode(stage) ==
    \/ stage.stage = "output"
    \/ \E k \in DOMAIN stage.nodes :
           stage.nodes[k].node = "gain" /\ stage.nodes[k].name \in {"trim", "ceiling"}

\* C7: the graph of the analysis pass ends at the stereo shaper, without
\* trim, limiter or ceiling, and is the graph that produced the measured
\* buffer; the graph of the final pass is that graph followed by one stage of
\* trim gain, limiter, ceiling gain, in this order.
C7_OutputStageOnlyInFinalPass ==
    \A i \in DOMAIN calls :
        LET c == calls[i]
            pre == c.preGraph
            final == c.finalGraph
            out == final[Len(final)].nodes
        IN  /\ pre[Len(pre)].stage = "stereo"
            /\ \A k \in DOMAIN pre : ~HasOutputNode(pre[k])
            /\ c.pre # NoBuffer =>
                   [graph |-> pre, input |-> c.buffer, out |-> c.pre] \in rendered
            /\ Entered(c, "FinalRender") =>
                   /\ Len(final) = Len(pre) + 1
                   /\ SubSeq(final, 1, Len(pre)) = pre
                   /\ final[Len(final)].stage = "output"
                   /\ Len(out) = 3
                   /\ out[1] = [node |-> "gain", name |-> "trim", gainDb |-> c.trimDb]
                   /\ out[2] = [node |-> "compressor",
                                ratio |-> c.dsp.output.limiter.ratio,
                                threshold |-> c.dsp.output.limiter.thresholdDb,
                                knee |-> c.dsp.output.limiter.kneeDb,
                                attack |-> c.dsp.output.limiter.attackSec,
                                release |-> c.dsp.output.limiter.releaseSec]
                   /\ out[3] = [node |-> "gain", name |-> "ceiling",
                                gainDb |-> c.dsp.output.ceilingDbFS]

\* A finished stereo call whose final pass applied a trim other than 0 dB.
C7_Witness ==
    \E i \in DOMAIN calls :
        /\ Phase(calls[i]) = "Done"
        /\ calls[i].buffer.numberOfChannels = 2
        /\ calls[i].trimDb # 0
        /\ Len(calls[i].finalGraph) = 7
        /\ Len(calls[i].preGraph[6].nodes) > 0

SameRequest(c, d) ==
    /\ c.buffer = d.buffer
    /\ c.presetKey = d.presetKey
    /\ c.useAutoTune = d.useAutoTune

C9_GatingFallsBackToCoarserEstimate ==
    probe # NoProbe =>
        LET b == probe.buffer
            samples == blockLen * b.numberOfChannels
            starts == BlockStarts(b)
            blocks == [j \in 1..Len(starts) |-> BlockSquares(b, starts[j])]
            loud(sq) == sq * Pow10(2 * b.exp) > samples
            overAbs == SelectSeq(blocks, loud)
            ungated == <<SumSeq(overAbs), Len(overAbs)>>
            near(sq) == 10 * sq * ungated[2] > ungated[1]
            overBoth == SelectSeq(overAbs, near)
        IN  /\ IsFinite(probe.integrated)
            /\ probe.integrated =
                   IF overAbs = <<>> THEN -700
                   ELSE IF overBoth = <<>>
                   THEN MeanSquareToLUFS(ungated[1], ungated[2] * samples, b.exp)
                   ELSE MeanSquareToLUFS(SumSeq(overBoth), Len(overBoth) * samples, b.exp)

\* C10: for an all-zero input of at least one 400 ms block every rendered
\* buffer is all zeros, the measured loudness is the absolute-gate value
\* -70 LUFS, and the request's output is all zeros under the trim applied.
C10_SilenceInSilenceOut ==
    \A i \in DOMAIN calls :
        (IsSilent(calls[i].buffer) /\ calls[i].buffer.length >= blockLen) =>
            /\ calls[i].pre # NoBuffer => IsSilent(calls[i].pre)
            /\ Entered(calls[i], "FinalRender") =>
                   /\ calls[i].integrated = -700
                   /\ calls[i].tpPre = -2400
                   /\ calls[i].trimDb = 120
            /\ Phase(calls[i]) = "Done" =>
                   /\ calls[i].final # NoBuffer
                   /\ calls[i].final.length = calls[i].buffer.length
                   /\ IsSilent(calls[i].final)

\* A stereo all-zero buffer of MaxLen samples rendered to Done.
C10_Witness ==
    \E i \in DOMAIN calls :
        /\ IsSilent(calls[i].buffer)
        /\ calls[i].buffer.length >= blockLen
        /\ calls[i].buffer.numberOfChannels = 2
        /\ calls[i].phases = PhaseOrder
        /\ calls[i].integrated = -700

\* -------------------------------------------- properties of the builder

DspFields == {"eq", "busComp", "multiband", "stereo", "output", "special"}

StrictlyIncreasing(seq) == \A i \in 1..(Len(seq) - 1) : seq[i] < seq[i + 1]

\* C11: for every preset key, with sliders inside or outside the nominal
\* range, the built spec has every EQ gain within [-6, +6] dB, five multiband
\* ratios within [1, 20], four strictly increasing crossover frequencies and
\* an output ceiling that is not above 0 dBFS.
C11_BuiltSpecWithinRanges ==
    built # NoBuild =>
        LET dsp == built.dsp
        IN  /\ \A n \in DOMAIN dsp.eq :
                   Has(dsp.eq[n], "gainDb") =>
                       (dsp.eq[n].gainDb >= -60 /\ dsp.eq[n].gainDb <= 60)
            /\ Len(dsp.multiband.bands) = 5
            /\ \A n \in DOMAIN dsp.multiband.bands :
                   /\ dsp.multiband.bands[n].ratio >= 1000
                   /\ dsp.multiband.bands[n].ratio <= 20000
            /\ Len(dsp.multiband.xoversHz) = 4
            /\ StrictlyIncreasing(dsp.multiband.xoversHz)
            /\ dsp.output.ceilingDbFS <= 0

\* A preset without override built from sliders beyond the range on both
\* sides: the shelves sit on the clamp limits.
C11_Witness ==
    /\ built # NoBuild
    /\ built.key = "deharsh"
    /\ built.settings.bass = 90
    /\ built.settings.high = -90
    /\ built.settings.compression = 200
    /\ built.dsp.eq[2].gainDb = 60
    /\ built.dsp.eq[4].gainDb = -60
    /\ built.dsp.multiband.bands[1].ratio = 4950

\* C12: with an override, each of the six fields of the built spec is the
\* override's value where the override defines it and the baseline's value
\* (or absence) otherwise; without an override the built spec is the baseline.
C12_OverrideFieldsWinElseBaseline ==
    built # NoBuild =>
        LET dsp == built.dsp
            base == BaselineDSP(built.key, built.settings)
        IN  IF Has(EXACT_PRESETS, built.key)
            THEN \A f \in DspFields :
                     IF Has(EXACT_PRESETS[built.key], f)
                     THEN Has(dsp, f) /\ dsp[f] = EXACT_PRESETS[built.key][f]
                     ELSE /\ Has(dsp, f) <=> Has(base, f)
                          /\ Has(base, f) => dsp[f] = base[f]
            ELSE dsp = base

\* The override of maximpact defines eq, busComp, multiband, stereo and output
\* but not special; the sliders differ from the catalog's.
C12_Witness ==
    /\ built # NoBuild
    /\ built.key = "maximpact"
    /\ built.settings # presets.maximpact
    /\ built.dsp.eq = EXACT_PRESETS.maximpact.eq
    /\ built.dsp.eq # SliderEq(built.settings)
    /\ Has(built.dsp, "busComp")
    /\ ~Has(built.dsp, "special")

\* C13 as stated: the stereo rules of every built spec have monoBelowHz 120.
C13_MonoBelowHzIs120 ==
    built # NoBuild => built.dsp.stereo.monoBelowHz = 120

\* C13: the slider-derived stereo rules always have monoBelowHz 120; the built
\* spec has 120 for every preset but festival, whose override sets 100.
C13_MonoBelowHzIs120ExceptFestival ==
    built # NoBuild =>
        /\ BaselineDSP(built.key, built.settings).stereo.monoBelowHz = 120
        /\ built.dsp.stereo.monoBelowHz = IF built.key = "festival" THEN 100 ELSE 120

\* festival built: the override's stereo rules replaced the baseline's.
C13_Witness ==
    /\ built # NoBuild
    /\ built.key = "festival"
    /\ built.dsp.stereo = EXACT_PRESETS.festival.stereo
    /\ built.dsp.stereo.monoBelowHz = 100

\* ---------------------------------------- properties of the stereo shaper

\* The stereo stage of a graph.
StereoStage(graph) == graph[CHOOSE k \in DOMAIN graph : graph[k].stage = "stereo"]

\* Tones below the side-removal band and above it.
TestTonesHz == {40, 90, 1000, 9000}

\* The output pair <<outL, outR>> of the shaper of call c for the input pair in.
ShaperOut(c, in, hz) ==
    LET nodes == StereoStage(c.preGraph).nodes
        conns == StereoConnections(c.dsp.stereo)
    IN  <<NodeSignal(nodes, conns, in, hz, "outL"), NodeSignal(nodes, conns, in, hz, "outR")>>

\* Net gain on a pure side signal (L = -R), in thousandths.
SideGain(c, hz) ==
    LET out == ShaperOut(c, <<1000, -1000>>, hz) IN (out[1] - out[2]) \div 2

\* Net gain on a pure mid signal (L = R), in thousandths.
MidGain(c, hz) ==
    LET out == ShaperOut(c, <<1000, 1000>>, hz) IN (out[1] + out[2]) \div 2

\* C14: for a stereo input and stereo rules with monoBelowHz set, the shaper
\* leaves no side signal below monoBelowHz whatever overallWidth is, and it
\* passes the mid signal with unity gain.
C14_LowSideRemovedMidKept ==
    \A i \in DOMAIN calls :
        LET c == calls[i]
        IN  (c.buffer.numberOfChannels = 2 /\ Has(c.dsp.stereo, "monoBelowHz")) =>
                \A hz \in TestTonesHz :
                    /\ hz < c.dsp.stereo.monoBelowHz => SideGain(c, hz) = 0
                    /\ MidGain(c, hz) = 1000

\* -------------------------------------- properties of the bus compressor

HasSidechainHpf(dsp) ==
    /\ Has(dsp, "busComp")
    /\ dsp.busComp.enabled
    /\ Has(dsp.busComp, "sidechainHpfHz")
    /\ dsp.busComp.sidechainHpfHz # 0

\* C15: when the bus compressor has a sidechain high-pass frequency, the audio
\* that leaves the stage has not passed through the high-pass filter: the
\* filter does not lie between the stage's input and the node it returns.
C15_SidechainHpfOffSignalPath ==
    \A i \in DOMAIN calls :
        LET c == calls[i]
            conns == BusCompConnections(c.dsp)
        IN  HasSidechainHpf(c.dsp) =>
                ~(/\ Reaches(conns, "input", "highpass", Len(conns))
                  /\ Reaches(conns, "highpass", "comp", Len(conns)))

\* ----------------------------------------- properties of the warmth stage

\* The graphs a call has built so far: the analysis pass and the final pass.
GraphsOf(c) ==
    {c.preGraph} \cup (IF Entered(c, "FinalRender") THEN {c.finalGraph} ELSE {})

\* The warmth stage holds exactly the peaking cut (400 Hz, -2 dB, Q 1.2).
WarmthPresent(graph) ==
    \E k \in DOMAIN graph :
        /\ graph[k].stage = "warmth"
        /\ graph[k].nodes = <<BiquadGain("peaking", 400, 1200, -20)>>

\* No stage of the graph holds a peaking cut at 400 Hz.
WarmthAbsent(graph) ==
    \A k \in DOMAIN graph :
        \A n \in DOMAIN graph[k].nodes :
            ~(/\ graph[k].nodes[n].node = "biquad"
              /\ graph[k].nodes[n].type = "peaking"
              /\ graph[k].nodes[n].freq = 400)

IsBigcappo(dsp) == Has(dsp, "special") /\ dsp.special = "bigcappo"

\* C16 as stated: the warmth stage is in the graph of either pass exactly when
\* the spec's special tag is "bigcappo", whatever the auto-tune flag is.
C16_WarmthIffBigcappo ==
    \A i \in DOMAIN calls :
        \A graph \in GraphsOf(calls[i]) :
            IF IsBigcappo(calls[i].dsp) THEN WarmthPresent(graph) ELSE WarmthAbsent(graph)

\* C16: the warmth stage is in the graph of either pass exactly when the
\* spec's special tag is "bigcappo" or the auto-tune flag is set.
C16_WarmthIffBigcappoOrAutoTune ==
    \A i \in DOMAIN calls :
        \A graph \in GraphsOf(calls[i]) :
            IF IsBigcappo(calls[i].dsp) \/ calls[i].useAutoTune
            THEN WarmthPresent(graph)
            ELSE WarmthAbsent(graph)

\* A preset without the tag rendered to the end with the auto-tune flag set:
\* both passes carry the warmth node.
C16_Witness ==
    \E i \in DOMAIN calls :
        /\ calls[i].presetKey = "deharsh"
        /\ calls[i].useAutoTune
        /\ Phase(calls[i]) = "Done"
        /\ WarmthPresent(calls[i].preGraph)
        /\ WarmthPresent(calls[i].finalGraph)

\* ------------------------------------------- properties of the encoders

\* The unsigned little-endian number in the n bytes from offset o on.
RECURSIVE UintAt(_, _, _)
UintAt(bytes, o, n) ==
    IF n = 0 THEN 0 ELSE bytes[o] + 256 * UintAt(bytes, o + 1, n - 1)

\* The signed 16-bit little-endian number at offset o.
Int16At(bytes, o) ==
    LET u == UintAt(bytes, o, 2) IN IF u >= 32768 THEN u - 65536 ELSE u

\* The stores that touch the byte at offset o.
WritesCovering(writes, o) ==
    {k \in DOMAIN writes :
        writes[k].offset <= o /\ o < writes[k].offset + Len(writes[k].bytes)}

\* C17: for a buffer of C channels and M samples bufferToWav yields
\* 44 + M*C*2 bytes; the header holds RIFF size 36 + M*C*2, format tag 1,
\* channel count C, block align 2*C, 16 bits per sample and data length
\* M*C*2; the sample of frame i, channel c is stored at 44 + 2*(i*C + c), and
\* every data byte is stored exactly once.
C17_WavLayout ==
    wav # NoWav =>
        LET b == wav.buffer
            C == b.numberOfChannels
            M == b.length
            bytes == wav.blob.bytes
            writes == wav.blob.writes
        IN  /\ wav.blob.size = 44 + M * C * 2
            /\ DOMAIN bytes = 0..(44 + M * C * 2 - 1)
            /\ UintAt(bytes, 4, 4) = 36 + M * C * 2
            /\ UintAt(bytes, 20, 2) = 1
            /\ UintAt(bytes, 22, 2) = C
            /\ UintAt(bytes, 32, 2) = C * 2
            /\ UintAt(bytes, 34, 2) = 16
            /\ UintAt(bytes, 40, 4) = M * C * 2
            /\ \A i \in 0..(M - 1), c \in 0..(C - 1) :
                   /\ Int16At(bytes, 44 + 2 * (i * C + c))
                        = FloatToInt16(SampleMicro(b, c, i))
                   /\ \E k \in DOMAIN writes :
                          /\ writes[k].offset = 44 + 2 * (i * C + c)
                          /\ writes[k].bytes
                               = LittleEndian(FloatToInt16(SampleMicro(b, c, i)) % 65536, 2)
            /\ \A o \in 44..(44 + M * C * 2 - 1) :
                   Cardinality(WritesCovering(writes, o)) = 1

\* A stereo buffer of two frames whose four samples encode differently.
C17_Witness ==
    /\ wav # NoWav
    /\ wav.buffer.numberOfChannels = 2
    /\ wav.buffer.length = 2
    /\ wav.buffer.exp = 3
    /\ wav.buffer.data = << <<2, -9>>, <<0, 9>> >>
    /\ wav.blob.size = 52
    /\ Int16At(wav.blob.bytes, 44) = 22478
    /\ Int16At(wav.blob.bytes, 46) = 0
    /\ Int16At(wav.blob.bytes, 48) = -32768
    /\ Int16At(wav.blob.bytes, 50) = 32767

\* The samples of the encoded buffer as <<float in millionths, 16-bit value>>,
\* read back from the WAV data and from the Int16Array of toInt16.
Encoded ==
    LET b == wav.buffer
    IN  UNION {{ <<SampleMicro(b, c, i),
                   Int16At(wav.blob.bytes, 44 + 2 * (i * b.numberOfChannels + c))>>,
                 <<SampleMicro(b, c, i), wav.pcm[c + 1][i + 1]>> } :
                  c \in 0..(b.numberOfChannels - 1), i \in 0..(b.length - 1)}

\* C18: every encoded value lies in [-32768, 32767]; floats <= -1 give
\* -32768, floats >= 1 give 32767, 0 gives 0 (an all-zero buffer encodes to
\* all-zero data), and a larger float never gives a smaller value.
C18_FloatToInt16 ==
    wav # NoWav =>
        /\ \A e \in Encoded :
               /\ e[2] >= -32768 /\ e[2] <= 32767
               /\ e[1] <= -1000000 => e[2] = -32768
               /\ e[1] >= 1000000 => e[2] = 32767
               /\ e[1] = 0 => e[2] = 0
        /\ \A e1 \in Encoded, e2 \in Encoded : e1[1] <= e2[1] => e1[2] <= e2[2]
        /\ IsSilent(wav.buffer) =>
               \A o \in 44..(wav.blob.size - 1) : wav.blob.bytes[o] = 0

\* A buffer with a sample below -1, one above 1, one in between and a zero.
C18_Witness ==
    /\ wav # NoWav
    /\ wav.buffer.exp = 3
    /\ wav.buffer.data = << <<-9, 2>>, <<9, 0>> >>
    /\ wav.pcm = << <<-32768, 22478>>, <<32767, 0>> >>
    /\ Encoded = { <<-3087000, -32768>>, <<686000, 22478>>, <<3087000, 32767>>, <<0, 0>> }

\* ------------------------------------------------- properties of export

\* Some MP3 export has found the encoder missing.
EncoderWasMissing == \E k \in DOMAIN exports : exports[k].outcome = "unavailable"

\* The step in which export k learns that the encoder is missing.
FindsEncoderMissing(k) ==
    /\ exports[k].outcome = "pending"
    /\ exports'[k].outcome = "unavailable"

\* The step is a WAV export issued after the encoder was found missing.
WavExportAfterMissing ==
    /\ EncoderWasMissing
    /\ Len(exports') = Len(exports) + 1
    /\ exports'[Len(exports')].format = "wav"

\* C19: an MP3 export that finds the encoder missing reports it with one
\* toast and no export error, starts no download, leaves processedBuffer as it
\* is and sets isProcessing to false; afterwards the WAV export is still
\* possible and a WAV export then starts the download of the WAV blob.
C19_MissingEncoderIsReported ==
    /\ [](EncoderWasMissing => (processedBuffer # NoBuffer /\ file # ""))
    /\ [][ /\ \A k \in DOMAIN exports :
                  FindsEncoderMissing(k) =>
                      /\ toasts' = toasts \o Mp3NotInstalled
                      /\ downloads' = downloads
                      /\ processedBuffer' = processedBuffer
                      /\ isProcessing' = FALSE
           /\ WavExportAfterMissing =>
                  /\ exports'[Len(exports')].outcome = "downloaded"
                  /\ Len(downloads') = Len(downloads) + 1
                  /\ Last(downloads').blob =
                         [type |-> "audio/wav",
                          size |-> 44 + processedBuffer.length
                                          * processedBuffer.numberOfChannels * 2]
                  /\ Last(toasts') = ExportStarted[1]
                  /\ processedBuffer' = processedBuffer
                  /\ isProcessing' = FALSE ]_vars

\* An MP3 export found the encoder missing, then a WAV export downloaded.
C19_Witness ==
    /\ Len(exports) = 2
    /\ exports[1].format = "mp3"
    /\ exports[1].outcome = "unavailable"
    /\ exports[2].format = "wav"
    /\ exports[2].outcome = "downloaded"
    /\ Len(downloads) = 1
    /\ downloads[1].blob.type = "audio/wav"
    /\ ~isProcessing
    /\ \E k \in DOMAIN toasts : toasts[k] = Mp3NotInstalled[1]

\* --------------------------------------- frame of a render request

\* C20: a render request never changes its input buffer or its preset, the
\* spec it built at its start stays what the catalog, the override table and
\* the universal output spec yield for the preset, and that one spec, with
\* the one input buffer, is what both the analysis pass and the final pass
\* were built from and rendered with.
C20_RequestLeavesInputsAndSpecAlone ==
    /\ [](\A i \in DOMAIN calls :
             LET c == calls[i]
             IN  /\ c.dsp = buildDSPForPreset(c.presetKey)
                 /\ c.preGraph = renderPresetGraph(c.buffer, c.dsp, c.useAutoTune,
                                                   "preOutput", 0)
                 /\ c.pre # NoBuffer =>
                        [graph |-> c.preGraph, input |-> c.buffer, out |-> c.pre]
                            \in rendered
                 /\ Entered(c, "FinalRender") =>
                        c.finalGraph = renderPresetGraph(c.buffer, c.dsp, c.useAutoTune,
                                                         "final", c.trimDb)
                 /\ Phase(c) = "Done" =>
                        [graph |-> c.finalGraph, input |-> c.buffer, out |-> c.final]
                            \in rendered)
    /\ [][\A i \in DOMAIN calls :
              /\ i \in DOMAIN calls'
              /\ calls'[i].buffer = calls[i].buffer
              /\ calls'[i].presetKey = calls[i].presetKey
              /\ calls'[i].useAutoTune = calls[i].useAutoTune
              /\ calls'[i].dsp = calls[i].dsp
              /\ calls'[i].preGraph = calls[i].preGraph]_vars

\* A request for a preset with an override, rendered to the end on a stereo
\* buffer: both passes were rendered from the buffer the caller passed.
C20_Witness ==
    \E i \in DOMAIN calls :
        /\ calls[i].presetKey = "maximpact"
        /\ calls[i].buffer.numberOfChannels = 2
        /\ ~IsSilent(calls[i].buffer)
        /\ calls[i].phases = PhaseOrder
        /\ calls[i].dsp.output # UNIVERSAL_OUTPUT
        /\ calls[i].finalGraph # calls[i].preGraph
        /\ calls[i].final # NoBuffer

\* ------------------------------------------ properties of the track store

\* The ids of the stored tracks, in array order.
StoredIds(data) == [k \in DOMAIN data |-> data[k].id]

\* The step is a call of updateVideoStatus.
IsUpdate == store' # store /\ store'.last.op = "updateVideoStatus"

\* C21: the k-th created track has id k, so the ids stored after n creations
\* are 1..n, all distinct, and the track a creation returns has the number of
\* creations as its id; updateVideoStatus changes neither an id nor the
\* number of tracks.
C21_IdsCountCreations ==
    /\ [](/\ {store.data[k].id : k \in DOMAIN store.data} = 1..Len(store.data)
          /\ \A j \in DOMAIN store.data, k \in DOMAIN store.data :
                 j # k => store.data[j].id # store.data[k].id
          /\ store.nextId = Len(store.data) + 1
          /\ store.last.op = "createTrack" =>
                 store.last.result.id = Len(store.data))
    /\ [][IsUpdate => StoredIds(store'.data) = StoredIds(store.data)]_vars

\* Three tracks created and the second one updated.
C21_Witness ==
    /\ Len(store.data) = 3
    /\ store.last.op = "updateVideoStatus"
    /\ store.last.id = 2
    /\ store.data[2].videoStatus = "complete"
    /\ StoredIds(store.data) = <<3, 2, 1>>

\* C22: the array getTracks resolves with holds every created track once,
\* newest first: the ids are n, n-1, .., 1; an update leaves every track at
\* its position.
C22_NewestFirst ==
    /\ [](/\ \A k \in DOMAIN store.data : store.data[k].id = Len(store.data) - k + 1
          /\ store.last.op = "getTracks" =>
                 /\ Len(store.last.result) = store.nextId - 1
                 /\ \A k \in 1..(Len(store.last.result) - 1) :
                        store.last.result[k].id > store.last.result[k + 1].id
                 /\ {store.last.result[k].id : k \in DOMAIN store.last.result}
                        = 1..(store.nextId - 1))
    /\ [][IsUpdate => \A k \in DOMAIN store.data :
                          /\ k \in DOMAIN store'.data
                          /\ store'.data[k].id = store.data[k].id]_vars

\* getTracks after three creations and an update of the oldest track.
C22_Witness ==
    /\ store.last.op = "getTracks"
    /\ Len(store.last.result) = 3
    /\ store.last.result[3].id = 1
    /\ store.last.result[3].videoStatus = "complete"
    /\ store.last.result[1].videoStatus = "pending"

\* C23: updateVideoStatus(id, status, url) sets videoStatus to status and
\* videoUrl to url, or to null when url is omitted, on the track with that id
\* and resolves with it; nothing else of the store changes; for an id that is
\* not stored it resolves with undefined and changes nothing.
C23_UpdateTouchesOneTrack ==
    [][IsUpdate =>
          LET call == store'.last
              found == {k \in DOMAIN store.data : store.data[k].id = call.id}
          IN  /\ store'.nextId = store.nextId
              /\ Len(store'.data) = Len(store.data)
              /\ \A k \in DOMAIN store.data :
                     IF k \in found
                     THEN /\ store'.data[k] =
                                 [store.data[k] EXCEPT
                                     !.videoStatus = call.status,
                                     !.videoUrl = IF call.url = Undefined THEN Null
                                                  ELSE call.url]
                          /\ call.result = store'.data[k]
                     ELSE store'.data[k] = store.data[k]
              /\ found = {} => (call.result = Undefined /\ store'.data = store.data)]_vars

\* A track that had a video URL was updated without one, next to a track the
\* update left alone.
C23_Witness ==
    /\ store.last.op = "updateVideoStatus"
    /\ store.last.url = Undefined
    /\ store.last.id = 1
    /\ Len(store.data) = 2
    /\ store.data[2].videoUrl = Null
    /\ store.data[2].videoStatus = "complete"
    /\ store.data[1].videoUrl = "u1"

\* C24: the track createTrack resolves with and stores carries the input's
\* filename and preset, format 'wav' and videoStatus 'none' when they are
\* omitted, and videoUrl and lyrics null when they are omitted.
C24_CreateCarriesInputAndDefaults ==
    store.last.op = "createTrack" =>
        LET in == store.last.input
            t == store.last.result
        IN  /\ store.data[1] = t
            /\ Has(t, "filename") /\ t.filename = in.filename
            /\ Has(t, "preset") /\ t.preset = in.preset
            /\ Has(t, "format") /\ t.format = OrElse(in, "format", "wav")
            /\ t.videoStatus = OrElse(in, "videoStatus", "none")
            /\ t.videoUrl = OrElse(in, "videoUrl", Null)
            /\ Has(t, "lyrics") /\ t.lyrics = OrElse(in, "lyrics", Null)

\* ------------------------------------------- properties of the cascade

StageOrder == <<"safetyHPF", "eq", "warmth", "busComp", "multiband", "stereo", "output">>

PlaceOf(name) == CHOOSE p \in DOMAIN StageOrder : StageOrder[p] = name

\* The places in graph of the stages that hold a node.
ActivePlaces(graph) == {k \in DOMAIN graph : graph[k].nodes # <<>>}

\* The stages that hold a node follow one another as in StageOrder.
InStageOrder(graph) ==
    /\ \A k \in DOMAIN graph : graph[k].stage \in {StageOrder[p] : p \in DOMAIN StageOrder}
    /\ \A j \in ActivePlaces(graph), k \in ActivePlaces(graph) :
           j < k => PlaceOf(graph[j].stage) < PlaceOf(graph[k].stage)

\* The names of the stages of graph that hold a node.
ActiveStages(graph) == {graph[k].stage : k \in ActivePlaces(graph)}

\* C25: in both passes the stages come in the order safety high-pass, EQ,
\* warmth, bus compressor, multiband, stereo shaper, output; the 30 Hz safety
\* high-pass comes first for every preset, the bus compressor is there exactly
\* when busComp is defined and enabled, the multiband stage always, the output
\* stage in the final pass only.
C25_StagesInFixedOrder ==
    \A i \in DOMAIN calls :
        LET c == calls[i]
        IN  \A graph \in GraphsOf(c) :
                /\ InStageOrder(graph)
                /\ graph[1] = Stage("safetyHPF", <<Biquad("highpass", 30, 707)>>)
                /\ "multiband" \in ActiveStages(graph)
                /\ "busComp" \in ActiveStages(graph)
                       <=> (Has(c.dsp, "busComp") /\ c.dsp.busComp.enabled)
                /\ "stereo" \in ActiveStages(graph) <=> c.buffer.numberOfChannels >= 2
                /\ "output" \in ActiveStages(graph) <=> graph # c.preGraph

\* maximpact with the auto-tune flag on a stereo buffer, rendered to the end:
\* all seven stages hold nodes in the final pass, six in the analysis pass.
C25_Witness ==
    \E i \in DOMAIN calls :
        /\ calls[i].presetKey = "maximpact"
        /\ calls[i].useAutoTune
        /\ calls[i].phases = PhaseOrder
        /\ Cardinality(ActiveStages(calls[i].finalGraph)) = 7
        /\ Cardinality(ActiveStages(calls[i].preGraph)) = 6

\* -------------------------------------- properties of the filter chain

\* The EQ node at place k of eq is a high-pass of order 2.
OrderTwo(eq, k) == eq[k].type = "hpf" /\ Has(eq[k], "order") /\ eq[k].order = 2

\* The place in the chain of the first filter of the EQ node at place k.
FirstFilterOf(eq, k) == k + Cardinality({j \in 1..(k - 1) : OrderTwo(eq, j)})

\* The biquad type an EQ node type is rendered with.
BiquadTypeOf(type) ==
    IF type = "hpf" THEN "highpass" ELSE IF type = "bell" THEN "peaking" ELSE type

\* C26: the chain has one filter per EQ node plus one per high-pass of order
\* 2, in the order of the list: the filters of node k start after those of
\* the nodes before it, have its type and frequency, and a high-pass of order
\* 2 is two equal consecutive high-pass filters.
C26_ChainFollowsEqList ==
    chain.applied =>
        LET eq == chain.eq
            out == chain.out
        IN  /\ Len(out) = Len(eq) + Cardinality({k \in DOMAIN eq : OrderTwo(eq, k)})
            /\ \A k \in DOMAIN eq :
                   LET first == out[FirstFilterOf(eq, k)]
                   IN  /\ first.type = BiquadTypeOf(eq[k].type)
                       /\ first.freq = eq[k].freq
                       /\ eq[k].type = "hpf"
                              => first.q = (IF Has(eq[k], "q") THEN eq[k].q ELSE 707)
                       /\ eq[k].type # "hpf" => first.gainDb = eq[k].gainDb
                       /\ OrderTwo(eq, k) => out[FirstFilterOf(eq, k) + 1] = first

\* A bell between a high-pass of order 2 and one without order: four filters.
C26_Witness ==
    /\ chain.applied
    /\ Len(chain.eq) = 3
    /\ OrderTwo(chain.eq, 1)
    /\ chain.eq[2].type = "bell"
    /\ chain.eq[3].type = "hpf" /\ ~Has(chain.eq[3], "order")
    /\ Len(chain.out) = 4

\* --------------------------------- properties of the compression slider

\* The ratios of the five bands, low band first.
Ratios(multiband) == [b \in 1..5 |-> multiband.bands[b].ratio]

Thresholds(multiband) == [b \in 1..5 |-> multiband.bands[b].thresholdDb]

\* C27: for every compression value the ratios fall from the low band to the
\* high band; between two values, each ratio of the larger one is at least
\* that of the smaller one and each threshold at most that of the smaller
\* one; a value outside [1.5, 7] gives what the nearest bound gives.
C27_RatiosOrderedAndMonotone ==
    \A i \in DOMAIN derived :
        /\ \A b \in 1..4 : Ratios(derived[i].multiband)[b] >= Ratios(derived[i].multiband)[b + 1]
        /\ \A j \in DOMAIN derived :
               /\ derived[i].compression <= derived[j].compression
                      => \A b \in 1..5 :
                             /\ Ratios(derived[i].multiband)[b] <= Ratios(derived[j].multiband)[b]
                             /\ Thresholds(derived[i].multiband)[b]
                                    >= Thresholds(derived[j].multiband)[b]
               /\ clamp(derived[i].compression, 15, 70) = clamp(derived[j].compression, 15, 70)
                      => derived[i].multiband = derived[j].multiband

\* The slider at 3 and then at 6.5: every ratio rises or stays, every
\* threshold falls.
C27_Witness ==
    /\ Len(derived) = 2
    /\ derived[1].compression = 30 /\ derived[2].compression = 65
    /\ Ratios(derived[1].multiband)[1] < Ratios(derived[2].multiband)[1]
    /\ Thresholds(derived[1].multiband)[5] > Thresholds(derived[2].multiband)[5]

\* ------------------------------------ properties of high-only widening

\* Net gain of the shaped graph on a pure side signal (L = -R) of hz Hertz,
\* in thousandths.
ShapedSideGain(hz) ==
    (NodeSignal(shaper.nodes, shaper.conns, <<1000, -1000>>, hz, "outL")
     - NodeSignal(shaper.nodes, shaper.conns, <<1000, -1000>>, hz, "outR")) \div 2

\* The connections of the shaped graph that enter or leave one of the nodes.
ConnectionsAt(names) ==
    {shaper.conns[k] : k \in {j \in DOMAIN shaper.conns :
                                 shaper.conns[j][1] \in names \/ shaper.conns[j][2] \in names}}

\* The gain nodes of the shaped graph named name.
GainsNamed(name) ==
    {shaper.nodes[k] : k \in {j \in DOMAIN shaper.nodes :
                                 shaper.nodes[j].node = "gain" /\ shaper.nodes[j].name = name}}

\* Tones between monoBelowHz and the cutoff, and above the cutoff.
TonesBelowCutoff == {500, 3000}

TonesAboveCutoff == {5000, 12000}

\* C28: with widthHighOnly set on a stereo input, the extra gain is the
\* clamped target width minus the clamped overall width (1 when not given);
\* it is fed by the side signal through the high-pass at widthHighOnly.freq
\* only, goes to outL as it is and to outR inverted, so that the side gain is
\* the target width above the cutoff and the overall width below it; when the
\* difference is within 0.01 no extra node is created and nothing is connected
\* to the high-pass.
C28_HighOnlyWidthIsTheDifference ==
    (shaper.applied /\ shaper.numChannels >= 2 /\ Has(shaper.stereo, "widthHighOnly")) =>
        LET overall == clamp((IF Has(shaper.stereo, "overallWidth")
                              THEN shaper.stereo.overallWidth ELSE 100) * 10, 500, 1600)
            target == clamp(shaper.stereo.widthHighOnly.width * 10, 500, 1800)
        IN  /\ \A hz \in TonesBelowCutoff : ShapedSideGain(hz) = overall
            /\ IF Abs(target - overall) > 10
               THEN /\ GainsNamed("extraGain") = {Gain("extraGain", target - overall)}
                    /\ GainsNamed("extraInv") = {Gain("extraInv", -1000)}
                    /\ ConnectionsAt({"highpass", "extraGain", "extraInv"})
                           = {<<"side", "highpass">>, <<"highpass", "extraGain">>,
                              <<"extraGain", "outL">>, <<"extraGain", "extraInv">>,
                              <<"extraInv", "outR">>}
                    /\ \A hz \in TonesAboveCutoff : ShapedSideGain(hz) = target
               ELSE /\ GainsNamed("extraGain") = {}
                    /\ GainsNamed("extraInv") = {}
                    /\ ConnectionsAt({"highpass", "extraGain", "extraInv"}) = {}
                    /\ \A hz \in TonesAboveCutoff : ShapedSideGain(hz) = overall

\* Overall width 110 and target 125: an extra gain of 0.15 above 4 kHz.
C28_Witness ==
    /\ shaper.applied
    /\ shaper.numChannels = 2
    /\ Has(shaper.stereo, "overallWidth") /\ shaper.stereo.overallWidth = 110
    /\ Has(shaper.stereo, "widthHighOnly") /\ shaper.stereo.widthHighOnly.width = 125
    /\ Gain("extraGain", 150) \in GainsNamed("extraGain")
    /\ ShapedSideGain(5000) = 1250

\* Overall width and target both 110: the high-pass is created and left
\* unconnected.
C28_NoExtraPathReached ==
    /\ shaper.applied
    /\ shaper.numChannels = 2
    /\ Has(shaper.stereo, "overallWidth") /\ shaper.stereo.overallWidth = 110
    /\ Has(shaper.stereo, "widthHighOnly") /\ shaper.stereo.widthHighOnly.width = 110
    /\ GainsNamed("extraGain") = {}

\* C29: for an input with fewer than two channels the shaper creates no node
\* and makes no connection, whatever the stereo spec holds: what it returns
\* is its input.
C29_MonoInputPassesUnshaped ==
    (shaper.applied /\ shaper.numChannels < 2) =>
        shaper.nodes = <<>> /\ shaper.conns = <<>>

\* A mono input with every field of the stereo spec set.
C29_Witness ==
    /\ shaper.applied
    /\ shaper.numChannels = 1
    /\ Has(shaper.stereo, "monoBelowHz") /\ shaper.stereo.monoBelowHz = 120
    /\ Has(shaper.stereo, "overallWidth")
    /\ Has(shaper.stereo, "widthHighOnly")
    /\ shaper.nodes = <<>>

\* ---------------------------------------------- properties of playback

\* C30: at any time at most one audio source has been started and not
\* stopped, whatever the order of the play button, the deferred starts of
\* preset taps, hold gestures and A/B toggles, and also when a startPlayback
\* waits for resume() while another one runs.
C30_AtMostOneSourcePlaying == Cardinality(playback.started) <= 1

\* The step is a tap on the preset: handlePresetInteraction up to its await.
IsTap(presetKey) ==
    /\ playback' # playback
    /\ playback'.last = [op |-> "handlePresetInteraction", presetKey |-> presetKey]

\* The step settles the render of a preset tap; the request is the one that
\* leaves rendering.
IsTapSettled(r) ==
    /\ playback'.last.op = "settled"
    /\ r \in playback.rendering \ playback'.rendering
    /\ r.tap

\* The step neither starts a source nor suspends a startPlayback.
NothingStarts ==
    /\ playback'.created = playback.created
    /\ playback'.started \subseteq playback.started
    /\ playback'.awaiting = playback.awaiting

\* The step sets no timer.
NothingScheduled ==
    /\ playback'.scheduled = playback.scheduled
    /\ playback'.timers \subseteq playback.timers

C34_TapPlaysItsOwnRender ==
    \A source \in playback.started :
        (source.tap # 0 /\ source.mode = "preset") => source.buffer = source.tap

\* C35: the release that matches a hold which switched to 'original' mode
\* returns the compare mode to 'preset' and sets the deferred start of the
\* preset playback, whenever it comes.
C35_ReleaseReturnsToPreset ==
    [][(playback.hold = "switched" /\ playback'.hold = "up") =>
          /\ playback'.compareMode = "preset"
          /\ \E t \in playback'.timers :
                 t.id = playback'.pendingStartTimeoutRef /\ t.call.mode = "preset"]_vars

\* ------------------------------------------ properties of isProcessing

\* The requests made through applyPremiumProcessing whose
\* processAudioPremium has neither resolved nor rejected.
InFlight ==
    {i \in DOMAIN calls : calls[i].caller # "direct" /\ Phase(calls[i]) \notin {"Done", "Failed"}}

\* C33: while a render request made through applyPremiumProcessing is in
\* flight, isProcessing is true.
C33_ProcessingWhileInFlight == InFlight # {} => isProcessing

\* -------------------------------------------- properties of the analyzer

\* The largest absolute sample of the buffer over all channels, as a mantissa.
LargestSample(buffer) ==
    MaxOf({Abs(getChannelData(buffer, c)[i]) :
              c \in 0..(buffer.numberOfChannels - 1), i \in 1..buffer.length})

\* C36: for every buffer of one sample or more the estimated true peak is at
\* least the largest absolute sample of the buffer in dBFS, and equal to it.
C36_TruePeakCoversLargestSample ==
    probe # NoProbe =>
        /\ probe.truePeak >= linToDb(4 * LargestSample(probe.buffer), 4, probe.buffer.exp)
        /\ probe.truePeak = linToDb(4 * LargestSample(probe.buffer), 4, probe.buffer.exp)

\* C37: whatever the length of the buffer that is measured, the integrated
\* loudness is finite, and so is the loudness trim target - measured.
C37_MeasuredLoudnessIsFinite ==
    /\ probe # NoProbe => IsFinite(probe.integrated)
    /\ \A i \in DOMAIN calls :
           Entered(calls[i], "TrimComputed") =>
               /\ IsFinite(calls[i].integrated)
               /\ IsFinite(FSub(calls[i].dsp.output.targetIntegratedLUFS, calls[i].integrated))

\* The sums of squares of the blocks of buffer that pass the absolute gate.
OverAbsGate(buffer) ==
    LET starts == BlockStarts(buffer)
        blocks == [j \in 1..Len(starts) |-> BlockSquares(buffer, starts[j])]
    IN  SelectSeq(blocks, LAMBDA sq :
                      sq * Pow10(2 * buffer.exp) > blockLen * buffer.numberOfChannels)

\* Those of them that also pass the relative gate, 10 LU below their mean.
OverBothGates(buffer) ==
    SelectSeq(OverAbsGate(buffer), LAMBDA sq :
                  10 * sq * Len(OverAbsGate(buffer)) > SumSeq(OverAbsGate(buffer)))

\* The ungated estimate: the loudness of the mean of the blocks that pass the
\* absolute gate.
UngatedLUFS(buffer) ==
    MeanSquareToLUFS(SumSeq(OverAbsGate(buffer)),
                     Len(OverAbsGate(buffer)) * blockLen * buffer.numberOfChannels,
                     buffer.exp)

\* C38: when a block passes the absolute gate, a block passes the relative
\* gate too, so the result is the loudness of the blocks that pass both gates
\* and never the fallback; it is not below the ungated estimate.
C38_RelativeGateKeepsABlock ==
    (probe # NoProbe /\ OverAbsGate(probe.buffer) # <<>>) =>
        /\ OverBothGates(probe.buffer) # <<>>
        /\ probe.integrated =
               MeanSquareToLUFS(SumSeq(OverBothGates(probe.buffer)),
                                Len(OverBothGates(probe.buffer))
                                    * blockLen * probe.buffer.numberOfChannels,
                                probe.buffer.exp)
        /\ probe.integrated >= UngatedLUFS(probe.buffer)

\* A quiet block and a loud one above the absolute gate: the relative gate
\* drops the quiet one and the result lies above the ungated estimate.
C38_Witness ==
    /\ probe # NoProbe
    /\ Len(OverAbsGate(probe.buffer)) = 2
    /\ Len(OverBothGates(probe.buffer)) = 1
    /\ probe.integrated > UngatedLUFS(probe.buffer)

\* ------------------------------------------------ properties of the routes

\* The track store as a client can observe it.
Stored(s) == <<s.data, s.nextId>>

\* A body POST /api/tracks must refuse: filename or preset is missing,
\* or one of filename, preset, format, videoStatus is null.
RefusedInsert(body) ==
    \/ \E f \in {"filename", "preset"} : ~Has(body, f)
    \/ \E f \in {"filename", "preset", "format", "videoStatus"} :
           Has(body, f) /\ body[f] = Null

\* C32: a request that fails validation never modifies the track store: POST
\* create with an invalid body answers 400 and creates no track; PATCH video
\* status with a status outside processing, complete, failed answers 400 and
\* changes nothing; PATCH for an id that is not stored answers 404 and changes
\* nothing; no request answered with 400 or 404 changes the store.
C32_RefusedRequestsLeaveTheStore ==
    [][http'.route # "none" =>
          LET r == http'
              post == r.route = "POST /api/tracks"
              patch == r.route = "PATCH /api/tracks/:id/video"
              unstored == \A k \in DOMAIN store.data :
                              r.id # ToString(store.data[k].id)
          IN  /\ (post /\ RefusedInsert(r.body)) =>
                     r.status = 400 /\ Stored(store') = Stored(store)
              /\ (patch /\ (~Has(r.body, "status")
                             \/ r.body.status \notin {"processing", "complete", "failed"})) =>
                     r.status = 400 /\ Stored(store') = Stored(store)
              /\ (patch /\ r.status # 400 /\ unstored) =>
                     r.status = 404 /\ Stored(store') = Stored(store)
              /\ r.status \in {400, 404} => Stored(store') = Stored(store)
              /\ (post /\ r.status = 201) => ~RefusedInsert(r.body)]_vars

\* With two tracks stored the server has refused a status that is no member
\* of the enumeration; both tracks are as they were created.
C32_Witness ==
    /\ http.route = "PATCH /api/tracks/:id/video"
    /\ http.id = "2"
    /\ http.body = [status |-> "done", url |-> "u2"]
    /\ http.status = 400
    /\ Len(store.data) = 2
    /\ \A k \in DOMAIN store.data :
           store.data[k].videoStatus = "pending" /\ store.data[k].videoUrl = Null

====
